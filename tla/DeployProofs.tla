---------------------------- MODULE DeployProofs ----------------------------
(***************************************************************************)
(* Proofs about DeployWatch, for any number of apps, uploads, stops, ports and  *)
(* restarts.                                                               *)
(***************************************************************************)
EXTENDS DeployWatch, TLAPS

-----------------------------------------------------------------------------
(* Which steps move which variable *)

LEMMA Moves ==
    ASSUME [Next]_vars
    PROVE  /\ \/ UNCHANGED deployedApps
              \/ \E u \in Upload : StoreApp(u)
              \/ \E x \in Stop : StopDelete(x)
              \/ Restart
           /\ \/ UNCHANGED pendingBuilds
              \/ \E u \in Upload : StoreBuild(u) \/ SnapshotFails(u) \/ DeleteBuild(u)
              \/ \E n \in Name : DismissBuild(n)
              \/ Restart
           /\ \/ UNCHANGED finished
              \/ \E u \in Upload : BuildFails(u) \/ RunFails(u) \/ DetectTimeout(u)
              \/ \E n \in Name : PromoteError(n)
              \/ Restart
           /\ UNCHANGED known \/ Restart \/ \E u \in Upload : SnapshotPorts(u)
           /\ UNCHANGED found \/ Restart \/ \E u \in Upload : Detect(u)
           /\ UNCHANGED target \/ Restart \/ \E x \in Stop : StopLoad(x)
           /\ UNCHANGED marshalled \/ Restart \/ \E w \in Request : SaveRange(w)
           /\ \/ UNCHANGED dirs
              \/ \E u \in Upload : Unpack(u) \/ RemoveDir(u)
              \/ \E x \in Stop : StopRemoveDir(x)
           /\ \/ UNCHANGED container
              \/ \E u \in Upload : \/ RemoveStale(u) \/ Run(u) \/ RunFails(u)
                                   \/ CleanStop(u) \/ CleanRm(u)
              \/ \E x \in Stop : StopContainer(x) \/ StopRm(x)
              \/ \E n \in Name : ShutdownStops(n) \/ AppListens(n)
           /\ UNCHANGED others \/ \E p \in OtherPorts : OthersChange(p)
           /\ UNCHANGED disk \/ \E w \in Request : SaveTruncate(w) \/ SaveWrite(w)
           /\ UNCHANGED phase \/ Crash \/ Shutdown \/ Exit \/ Restart
           /\ UNCHANGED toStop \/ Restart \/ Shutdown \/ \E n \in Name : ShutdownStops(n)
           /\ UNCHANGED restarts \/ Restart
  <1> USE DEF Next, Inside, UploadStep, SaveStep, StopStep, Dashboard, Host, Process,
              vars, memory, locals, host, process
  <1> USE DEF CheckApp, CheckBuild, Unpack, StoreBuild, SnapshotPorts, SnapshotFails,
              Build, BuildHangs, BuildFails, RemoveStale, Run, RunFails, Detect,
              DetectTimeout, CleanStop, CleanRm, RemoveDir, StoreApp, DeleteBuild,
              Evict, SaveRange, SaveTruncate, SaveWrite, AfterSave, StopLoad, StopContainer,
              StopRm, StopRemoveDir, StopDelete, DismissBuild, PromoteError,
              AppListens, OthersChange, Crash, Shutdown, ShutdownStops, Exit, Restart,
              RestartMissing
  <1>1. \/ UNCHANGED deployedApps
        \/ \E u \in Upload : StoreApp(u)
        \/ \E x \in Stop : StopDelete(x)
        \/ Restart
    OBVIOUS
  <1>2. \/ UNCHANGED pendingBuilds
        \/ \E u \in Upload : StoreBuild(u) \/ SnapshotFails(u) \/ DeleteBuild(u)
        \/ \E n \in Name : DismissBuild(n)
        \/ Restart
    OBVIOUS
  <1>3. \/ UNCHANGED finished
        \/ \E u \in Upload : BuildFails(u) \/ RunFails(u) \/ DetectTimeout(u)
        \/ \E n \in Name : PromoteError(n)
        \/ Restart
    OBVIOUS
  <1>4. UNCHANGED known \/ Restart \/ \E u \in Upload : SnapshotPorts(u)
    OBVIOUS
  <1>5. UNCHANGED found \/ Restart \/ \E u \in Upload : Detect(u)
    OBVIOUS
  <1>6. UNCHANGED target \/ Restart \/ \E x \in Stop : StopLoad(x)
    OBVIOUS
  <1>7. UNCHANGED marshalled \/ Restart \/ \E w \in Request : SaveRange(w)
    OBVIOUS
  <1>8. \/ UNCHANGED dirs
        \/ \E u \in Upload : Unpack(u) \/ RemoveDir(u)
        \/ \E x \in Stop : StopRemoveDir(x)
    OBVIOUS
  <1>9. \/ UNCHANGED container
        \/ \E u \in Upload : \/ RemoveStale(u) \/ Run(u) \/ RunFails(u)
                             \/ CleanStop(u) \/ CleanRm(u)
        \/ \E x \in Stop : StopContainer(x) \/ StopRm(x)
        \/ \E n \in Name : ShutdownStops(n) \/ AppListens(n)
    OBVIOUS
  <1>10. UNCHANGED others \/ \E p \in OtherPorts : OthersChange(p)
    OBVIOUS
  <1>11. UNCHANGED disk \/ \E w \in Request : SaveTruncate(w) \/ SaveWrite(w)
    OBVIOUS
  <1>12. UNCHANGED phase \/ Crash \/ Shutdown \/ Exit \/ Restart
    OBVIOUS
  <1>13. UNCHANGED toStop \/ Restart \/ Shutdown \/ \E n \in Name : ShutdownStops(n)
    OBVIOUS
  <1>14. UNCHANGED restarts \/ Restart
    OBVIOUS
  <1> QED
    BY <1>1, <1>2, <1>3, <1>4, <1>5, <1>6, <1>7, <1>8, <1>9, <1>10, <1>11, <1>12,
       <1>13, <1>14

(* A handler's step, or the restart. *)
LEMMA PcMoves ==
    ASSUME [Next]_vars
    PROVE  \/ UNCHANGED pc
           \/ \E w \in Request, to \in Steps : pc' = [pc EXCEPT ![w] = to]
           \/ Restart
  <1> USE DEF Next, Inside, UploadStep, SaveStep, StopStep, Go, Request
  <1>1. ASSUME NEW u \in Upload, UploadStep(u) \/ Evict(u)
        PROVE  \E to \in Steps : pc' = [pc EXCEPT ![u] = to]
    BY <1>1 DEF Steps, Building, Ended, Saving,
                CheckApp, CheckBuild, Unpack, StoreBuild, SnapshotPorts, SnapshotFails,
                Build, BuildHangs, BuildFails, RemoveStale, Run, RunFails, Detect,
                DetectTimeout, CleanStop, CleanRm, RemoveDir, StoreApp, DeleteBuild,
                Evict
  <1>2. ASSUME NEW w \in Request, SaveStep(w)
        PROVE  \E to \in Steps : pc' = [pc EXCEPT ![w] = to]
    BY <1>2
    DEF Steps, Building, Ended, Saving, SaveRange, SaveTruncate, SaveWrite,
        AfterSave
  <1>3. ASSUME NEW x \in Stop, StopStep(x)
        PROVE  \E to \in Steps : pc' = [pc EXCEPT ![x] = to]
    BY <1>3 DEF Steps, Building, Ended, Saving, StopLoad, StopContainer, StopRm,
                StopRemoveDir, StopDelete
  <1>4. CASE Dashboard
    BY <1>4 DEF Dashboard, DismissBuild, PromoteError
  <1>5. CASE Host
    BY <1>5 DEF Host, AppListens, OthersChange
  <1>6. CASE Process
    BY <1>6 DEF Process, Crash, Shutdown, ShutdownStops, Exit
  <1>7. CASE UNCHANGED vars
    BY <1>7 DEF vars
  <1> QED
    BY <1>1, <1>2, <1>3, <1>4, <1>5, <1>6, <1>7

-----------------------------------------------------------------------------
(* Type correctness *)

LEMMA TypeInit == Init => TypeOK
  BY DisjointAssumption DEF Init, TypeOK, NoApps, Apps, Steps

(* docker stop and docker rm leave every name a container or none. *)
LEMMA DockerType ==
    ASSUME container \in [Name -> Container \cup {None}], NEW n \in Name,
           DockerStop(n) \/ DockerRm(n)
    PROVE  container' \in [Name -> Container \cup {None}]
  <1>1. ASSUME NEW c \in Container PROVE Stopped(c) \in Container
    BY DEF Container, Stopped
  <1>2. CASE DockerStop(n)
    BY <1>1, <1>2 DEF DockerStop
  <1>3. CASE DockerRm(n)
    BY <1>3 DEF DockerRm
  <1> QED
    BY <1>2, <1>3

LEMMA ContainerType ==
    ASSUME TypeOK, [Next]_vars
    PROVE  container' \in [Name -> Container \cup {None}]
  <1> USE DEF TypeOK
  <1>1. ASSUME NEW u \in Upload,
               \/ RemoveStale(u) \/ Run(u) \/ RunFails(u)
               \/ CleanStop(u) \/ CleanRm(u)
        PROVE  container' \in [Name -> Container \cup {None}]
    <2>1. AppName[u] \in Name
      BY AppAssumption
    <2>2. Started(u) => container' \in [Name -> Container \cup {None}]
      BY <2>1 DEF Started, Container
    <2> QED
      BY <1>1, <2>1, <2>2, DockerType
      DEF RemoveStale, Run, RunFails, CleanStop, CleanRm
  <1>2. ASSUME NEW x \in Stop, StopContainer(x) \/ StopRm(x)
        PROVE  container' \in [Name -> Container \cup {None}]
    BY <1>2, DockerType, AppAssumption DEF StopContainer, StopRm
  <1>3. ASSUME NEW n \in Name, ShutdownStops(n)
        PROVE  container' \in [Name -> Container \cup {None}]
    BY <1>3, DockerType DEF ShutdownStops
  <1>4. ASSUME NEW n \in Name, AppListens(n)
        PROVE  container' \in [Name -> Container \cup {None}]
    <2>1. container[n] \in Container
      BY <1>4 DEF AppListens
    <2>2. Opened(container[n]) \in Container
      BY <2>1 DEF Opened, Container
    <2> QED
      BY <1>4, <2>2 DEF AppListens
  <1> QED
    BY <1>1, <1>2, <1>3, <1>4, Moves

LEMMA TypeNext ==
    ASSUME TypeOK, StepsWF, [Next]_vars
    PROVE  TypeOK'
  <1> USE AppAssumption DEF TypeOK, Request
  <1>1. deployedApps' \in Apps
    <2>1. \A u \in Upload : StoreApp(u) => deployedApps' \in Apps
      BY DEF StoreApp, Apps, App, StepsWF, Go
    <2>2. \A x \in Stop : StopDelete(x) => deployedApps' \in Apps
      BY DEF StopDelete, Apps
    <2>3. Restart => deployedApps' \in Apps
      BY DEF Restart, RestartMissing, Restored, Apps
    <2> QED
      BY <2>1, <2>2, <2>3, Moves
  <1>2. pendingBuilds' \in [Name -> Upload \cup {None}]
    BY Moves
    DEF StoreBuild, SnapshotFails, DeleteBuild, DismissBuild, Restart,
        RestartMissing
  <1>3. finished' \subseteq Upload
    BY Moves
    DEF BuildFails, RunFails, DetectTimeout, PromoteError, Restart, RestartMissing
  <1>4. pc' \in [Request -> Steps]
    <2>1. Restart => pc' \in [Request -> Steps]
      BY DEF Restart, RestartMissing, Steps, Ended
    <2> QED
      BY <2>1, PcMoves
  <1>5. known' \in [Upload -> SUBSET Port]
    BY Moves DEF SnapshotPorts, ListeningPorts, Restart, RestartMissing
  <1>6. found' \in [Upload -> Port \cup {None}]
    BY Moves DEF Detect, ListeningPorts, Restart, RestartMissing
  <1>7. target' \in [Stop -> App \cup {None}]
    BY Moves DEF StopLoad, Apps, Restart, RestartMissing
  <1>8. marshalled' \in [Request -> Apps]
    <2>1. NoApps \in Apps
      BY DEF NoApps, Apps
    <2> QED
      BY <2>1, Moves DEF SaveRange, Restart, RestartMissing
  <1>9. dirs' \subseteq Upload
    BY Moves DEF Unpack, RemoveDir, StopRemoveDir
  <1>10. container' \in [Name -> Container \cup {None}]
    BY ContainerType
  <1>11. others' \subseteq OtherPorts
    BY Moves DEF OthersChange
  <1>12. disk' \in Apps \cup {Torn}
    BY Moves DEF SaveTruncate, SaveWrite, AfterSave
  <1>13. phase' \in {"up", "stopping", "down"}
    BY Moves DEF Crash, Shutdown, Exit, Restart, RestartMissing
  <1>14. toStop' \subseteq Name
    BY Moves DEF Shutdown, ShutdownStops, Restart, RestartMissing
  <1>15. restarts' \in 0..MaxRestarts
    BY Moves, DisjointAssumption DEF Restart, RestartMissing, StepsWF
  <1> QED
    BY <1>1, <1>2, <1>3, <1>4, <1>5, <1>6, <1>7, <1>8, <1>9, <1>10, <1>11, <1>12,
       <1>13, <1>14, <1>15

-----------------------------------------------------------------------------
(* What never goes back *)

(* Only its own steps and the restart move a handler. *)
LEMMA OwnStep ==
    ASSUME TypeOK, [Next]_vars, NEW w \in Request, pc'[w] # pc[w]
    PROVE  \/ Restart
           \/ SaveStep(w)
           \/ w \in Upload /\ (UploadStep(w) \/ Evict(w))
           \/ w \in Stop /\ StopStep(w)
  <1> USE DEF TypeOK, Request, Go
  <1>1. ASSUME NEW u \in Upload, UploadStep(u) \/ Evict(u), u # w
        PROVE  pc'[w] = pc[w]
    BY <1>1 DEF UploadStep,
                CheckApp, CheckBuild, Unpack, StoreBuild, SnapshotPorts, SnapshotFails,
                Build, BuildHangs, BuildFails, RemoveStale, Run, RunFails, Detect,
                DetectTimeout, CleanStop, CleanRm, RemoveDir, StoreApp, DeleteBuild,
                Evict
  <1>2. ASSUME NEW v \in Request, SaveStep(v), v # w
        PROVE  pc'[w] = pc[w]
    BY <1>2 DEF SaveStep, SaveRange, SaveTruncate, SaveWrite, AfterSave
  <1>3. ASSUME NEW x \in Stop, StopStep(x), x # w
        PROVE  pc'[w] = pc[w]
    BY <1>3 DEF StopStep, StopLoad, StopContainer, StopRm, StopRemoveDir, StopDelete
  <1>4. ASSUME Dashboard \/ Host \/ Crash \/ Shutdown \/ Exit \/ UNCHANGED vars
        PROVE  pc'[w] = pc[w]
    BY <1>4 DEF Dashboard, DismissBuild, PromoteError, Host, AppListens, OthersChange,
                Crash, Shutdown, Exit, vars
  <1>5. ASSUME NEW n \in Name, ShutdownStops(n)
        PROVE  pc'[w] = pc[w]
    BY <1>5 DEF ShutdownStops
  <1> QED
    BY <1>1, <1>2, <1>3, <1>4, <1>5 DEF Next, Inside, Process

(* An upload whose app was stored, or whose container may have been started,
   stays so, and who has passed the checks has passed them. *)
LEMMA Progress ==
    ASSUME TypeOK, StepsWF, [Next]_vars
    PROVE  /\ \A u \in Upload : pc[u] \in Stored => pc'[u] \in Stored
           /\ \A u \in Upload : pc[u] \in AfterRun => pc'[u] \in AfterRun
           /\ \A u \in Upload : Alone(u)' => Alone(u)
  <1> USE DisjointAssumption DEF TypeOK, Request, Go, Stopping, Saving, Ended, StepsWF
  <1>1. ASSUME NEW u \in Upload
        PROVE  /\ pc[u] \in Stored => pc'[u] \in Stored
               /\ pc[u] \in AfterRun => pc'[u] \in AfterRun
               /\ pc'[u] \in {"new", "checkBuild", "refused"}
                      => pc[u] \in {"new", "checkBuild", "refused"}
    <2>1. CASE pc'[u] = pc[u]
      BY <2>1
    <2>2. CASE Restart
      BY <2>2 DEF Restart, RestartMissing, Stored, AfterRun
    <2>3. CASE SaveStep(u)
      BY <2>3
      DEF SaveStep, SaveRange, SaveTruncate, SaveWrite, AfterSave, Stored, AfterRun
    <2>4. CASE UploadStep(u) \/ Evict(u)
      BY <2>4 DEF UploadStep,
                  CheckApp, CheckBuild, Unpack, StoreBuild, SnapshotPorts,
                  SnapshotFails, Build, BuildHangs, BuildFails, RemoveStale, Run,
                  RunFails, Detect, DetectTimeout, CleanStop, CleanRm, RemoveDir,
                  StoreApp, DeleteBuild, Evict, Stored, AfterRun
    <2> QED
      BY <2>1, <2>2, <2>3, <2>4, OwnStep
  <1>2. \A u \in Upload : Alone(u)' => Alone(u)
    BY <1>1 DEF Alone
  <1> QED
    BY <1>1, <1>2

(* Within one life of the process only storeApp makes an upload's app a stored one. *)
LEMMA StoredByStoreApp ==
    ASSUME TypeOK, StepsWF, [Next]_vars, ~Restart, NEW u \in Upload, pc'[u] \in Stored
    PROVE  pc[u] \in Stored \/ StoreApp(u)
  <1> USE DisjointAssumption DEF TypeOK, Request, Go, Stopping, Saving, Ended, StepsWF,
                                 Stored
  <1>1. CASE pc'[u] = pc[u]
    BY <1>1
  <1>2. CASE SaveStep(u)
    BY <1>2 DEF SaveStep, SaveRange, SaveTruncate, SaveWrite, AfterSave
  <1>3. CASE UploadStep(u) \/ Evict(u)
    BY <1>3 DEF UploadStep,
                CheckApp, CheckBuild, Unpack, StoreBuild, SnapshotPorts,
                SnapshotFails, Build, BuildHangs, BuildFails, RemoveStale, Run,
                RunFails, Detect, DetectTimeout, CleanStop, CleanRm, RemoveDir,
                DeleteBuild, Evict
  <1> QED
    BY <1>1, <1>2, <1>3, OwnStep

(* Nothing inside takes a promotion past its eviction.                     *)
LEMMA InsideWaits ==
    ASSUME TypeOK, Inside, ~Restart, NEW u \in Upload, pc[u] = "evict"
    PROVE  pc'[u] = "evict"
  <1> USE DisjointAssumption DEF TypeOK, Request, Go, AfterSave
  <1>1. ASSUME NEW w \in Upload, UploadStep(w) PROVE pc'[u] = "evict"
    BY <1>1 DEF UploadStep,
                CheckApp, CheckBuild, Unpack, StoreBuild, SnapshotPorts, SnapshotFails,
                Build, BuildHangs, BuildFails, RemoveStale, Run, RunFails, Detect,
                DetectTimeout, CleanStop, CleanRm, RemoveDir, StoreApp, DeleteBuild
  <1>2. ASSUME NEW v \in Request, SaveStep(v) PROVE pc'[u] = "evict"
    BY <1>2 DEF SaveStep, SaveRange, SaveTruncate, SaveWrite
  <1>3. ASSUME NEW x \in Stop, StopStep(x) PROVE pc'[u] = "evict"
    BY <1>3 DEF StopStep, StopLoad, StopContainer, StopRm, StopRemoveDir, StopDelete
  <1>4. ASSUME Dashboard \/ Host \/ Crash \/ Shutdown \/ Exit PROVE pc'[u] = "evict"
    BY <1>4 DEF Dashboard, DismissBuild, PromoteError, Host, AppListens, OthersChange,
                Crash, Shutdown, Exit
  <1>5. ASSUME NEW n \in Name, ShutdownStops(n) PROVE pc'[u] = "evict"
    BY <1>5 DEF ShutdownStops
  <1> QED
    BY <1>1, <1>2, <1>3, <1>4, <1>5 DEF Inside, Process

(* An upload ends with its eviction, and only then.                        *)
LEMMA EvictLast ==
    ASSUME TypeOK, StepsWF, [Next]_vars, ~Restart, NEW u \in Upload
    PROVE  /\ pc[u] \in {"evict", "done"} => pc'[u] \in {"evict", "done"}
           /\ pc[u] # "done" /\ pc'[u] = "done" => Evict(u)
  <1> USE DisjointAssumption DEF TypeOK, Request, Go, Stopping, Saving, Ended, StepsWF
  <1>1. CASE pc'[u] = pc[u]
    BY <1>1
  <1>2. CASE SaveStep(u)
    BY <1>2 DEF SaveStep, SaveRange, SaveTruncate, SaveWrite, AfterSave
  <1>3. CASE UploadStep(u)
    BY <1>3 DEF UploadStep,
                CheckApp, CheckBuild, Unpack, StoreBuild, SnapshotPorts,
                SnapshotFails, Build, BuildHangs, BuildFails, RemoveStale, Run,
                RunFails, Detect, DetectTimeout, CleanStop, CleanRm, RemoveDir,
                StoreApp, DeleteBuild
  <1>4. CASE Evict(u)
    BY <1>4 DEF Evict
  <1> QED
    BY <1>1, <1>2, <1>3, <1>4, OwnStep

-----------------------------------------------------------------------------
(* The parts of IInv about steps, apps, containers, builds and directories *)

LEMMA StepsNext ==
    ASSUME TypeOK, StepsWF, [Next]_vars
    PROVE  StepsWF'
  <1> USE DisjointAssumption, AppAssumption DEF TypeOK, Request, StepsWF
  <1>1. ASSUME NEW u \in Upload PROVE pc'[u] \notin Stopping
    <2> USE DEF Go, Stopping
    <2>1. CASE pc'[u] = pc[u]
      BY <2>1
    <2>2. CASE Restart
      BY <2>2 DEF Restart, RestartMissing
    <2>3. CASE SaveStep(u)
      BY <2>3 DEF SaveStep, SaveRange, SaveTruncate, SaveWrite, AfterSave
    <2>4. CASE UploadStep(u) \/ Evict(u)
      BY <2>4
      DEF UploadStep, CheckApp, CheckBuild, Unpack, StoreBuild, SnapshotPorts,
          SnapshotFails, Build, BuildHangs, BuildFails, RemoveStale, Run, RunFails,
          Detect, DetectTimeout, CleanStop, CleanRm, RemoveDir, StoreApp,
          DeleteBuild, Evict
    <2> QED
      BY <2>1, <2>2, <2>3, <2>4, OwnStep
  <1>2. ASSUME NEW u \in Upload, pc'[u] = "storeApp" PROVE found'[u] \in Port
    <2>1. CASE Detect(u)
      BY <2>1 DEF Detect, ListeningPorts
    <2>2. CASE pc[u] = "storeApp"
      <3>1. \A v \in Upload : Detect(v) => v # u
        BY <2>2 DEF Detect, Go
      <3> QED
        BY <1>2, <2>2, <3>1, Moves DEF Detect, Restart, RestartMissing, Ended
    <2>3. pc[u] = "storeApp" \/ Detect(u)
      <3>1. ~Restart /\ ~SaveStep(u)
        BY <1>2
        DEF Restart, RestartMissing, Ended, Go, SaveStep, SaveRange, SaveTruncate,
            SaveWrite, AfterSave
      <3>2. UploadStep(u) \/ Evict(u) => Detect(u)
        BY <1>2
        DEF UploadStep, CheckApp, CheckBuild, Unpack, StoreBuild, SnapshotPorts,
            SnapshotFails, Build, BuildHangs, BuildFails, RemoveStale, Run, RunFails,
            DetectTimeout, CleanStop, CleanRm, RemoveDir, StoreApp, DeleteBuild,
            Evict, Go
      <3> QED
        BY <1>2, <3>1, <3>2, OwnStep
    <2> QED
      BY <2>1, <2>2, <2>3
  <1>3. ASSUME NEW x \in Stop
        PROVE  pc'[x] \in {"new"} \cup Stopping \cup Saving \cup Ended
    <2> USE DEF Go, Stopping, Saving, Ended
    <2>1. CASE pc'[x] = pc[x]
      BY <2>1
    <2>2. CASE Restart
      BY <2>2 DEF Restart, RestartMissing
    <2>3. CASE SaveStep(x)
      BY <2>3 DEF SaveStep, SaveRange, SaveTruncate, SaveWrite, AfterSave
    <2>4. CASE StopStep(x)
      BY <2>4
      DEF StopStep, StopLoad, StopContainer, StopRm, StopRemoveDir, StopDelete
    <2> QED
      BY <2>1, <2>2, <2>3, <2>4, OwnStep
  <1>4. phase' # "up" => restarts' < MaxRestarts
    BY Moves DEF Crash, Shutdown, Exit, Restart, RestartMissing, process
  <1> QED
    BY <1>1, <1>2, <1>3, <1>4

LEMMA AppsNext ==
    ASSUME TypeOK, StepsWF, AppsWF, [Next]_vars
    PROVE  AppsWF'
  <1> USE DEF TypeOK, Request, AppsWF
  <1>1. ASSUME NEW app, NEW n \in Name, app \in App \cup {None}, Fits(app, n)
        PROVE  Fits(app, n)'
    BY <1>1, Progress DEF Fits, App
  <1>2. ASSUME NEW n \in Name PROVE Fits(deployedApps[n], n)'
    <2>1. CASE deployedApps' = deployedApps
      BY <1>1, <2>1, SMTT(30) DEF Apps, Fits
    <2>2. ASSUME NEW u \in Upload, StoreApp(u) PROVE Fits(deployedApps[n], n)'
      BY <1>1, <2>2, AppAssumption DEF StoreApp, Fits, Apps, Go, Stored
    <2>3. ASSUME NEW x \in Stop, StopDelete(x) PROVE Fits(deployedApps[n], n)'
      BY <1>1, <2>3 DEF StopDelete, Fits, Apps
    <2>4. CASE Restart
      <3>1. deployedApps'[n] = None \/ (disk # Torn /\ deployedApps'[n] = disk[n])
        BY <2>4 DEF Restart, RestartMissing, Restored
      <3>2. disk # Torn => disk[n] \in App \cup {None}
        BY DEF Apps
      <3> QED
        BY <1>1, <3>1, <3>2 DEF Fits
    <2> QED
      BY <2>1, <2>2, <2>3, <2>4, Moves
  <1>3. ASSUME NEW w \in Request, NEW n \in Name PROVE Fits(marshalled[w][n], n)'
    <2>1. marshalled'[w] \in {marshalled[w], deployedApps, NoApps}
      BY Moves DEF SaveRange, Restart, RestartMissing
    <2>2. /\ marshalled[w][n] \in App \cup {None} /\ Fits(marshalled[w][n], n)
          /\ deployedApps[n] \in App \cup {None} /\ Fits(deployedApps[n], n)
      BY DEF Apps
    <2> QED
      BY <1>1, <2>1, <2>2 DEF Fits, NoApps
  <1>4. ASSUME disk' # Torn, NEW n \in Name PROVE Fits(disk[n], n)'
    <2>1. disk' = disk \/ \E w \in Request : disk' = marshalled[w]
      BY <1>4, Moves DEF SaveTruncate, SaveWrite, AfterSave
    <2>2. /\ \A w \in Request : /\ marshalled[w][n] \in App \cup {None}
                                /\ Fits(marshalled[w][n], n)
          /\ disk # Torn => disk[n] \in App \cup {None} /\ Fits(disk[n], n)
      BY DEF Apps
    <2> QED
      BY <1>1, <1>4, <2>1, <2>2 DEF Fits
  <1>5. ASSUME NEW x \in Stop
        PROVE  /\ Fits(target[x], StopName[x])'
               /\ pc'[x] \in Stopping \cup Saving => target'[x] # None
    <2>1. CASE StopLoad(x)
      <3>1. target'[x] = deployedApps[StopName[x]]
        BY <2>1 DEF StopLoad
      <3>2. pc'[x] \in Stopping \cup Saving => target'[x] # None
        BY <2>1, <3>1 DEF StopLoad, Go, Stopping, Saving
      <3>3. PICK app : app = deployedApps[StopName[x]]
        OBVIOUS
      <3>4. /\ StopName[x] \in Name
            /\ app \in App \cup {None} /\ Fits(app, StopName[x])
        BY <3>3, AppAssumption DEF Apps
      <3>5. Fits(app, StopName[x])'
        BY <1>1, <3>4
      <3> QED
        BY <3>1, <3>2, <3>3, <3>5 DEF Fits
    <2>2. CASE Restart
      <3>1. target'[x] = None /\ pc'[x] \notin Stopping \cup Saving
        BY <2>2 DEF Restart, RestartMissing, Stopping, Saving, Ended
      <3> QED
        BY <3>1 DEF Fits
    <2>3. CASE ~StopLoad(x) /\ ~Restart
      <3>1. target'[x] = target[x]
        BY <2>3, Moves DEF StopLoad
      <3>2. pc'[x] \in Stopping \cup Saving => pc[x] \in Stopping \cup Saving
        BY <2>3, OwnStep, DisjointAssumption
        DEF Stopping, Saving, SaveStep, SaveRange, SaveTruncate, SaveWrite,
            AfterSave, StopStep,
            StopContainer, StopRm, StopRemoveDir, StopDelete, Go
      <3> QED
        BY <1>1, <3>1, <3>2, AppAssumption DEF Fits
    <2> QED
      BY <2>1, <2>2, <2>3
  <1> QED
    BY <1>2, <1>3, <1>4, <1>5

(* Where a container comes from: it was there already, or an upload has just
   started it. *)
LEMMA ContainerSteps ==
    ASSUME TypeOK, [Next]_vars, NEW n \in Name, container'[n] # None
    PROVE  \/ /\ container[n] # None
              /\ container'[n].id = container[n].id
              /\ container'[n].running => container[n].running
           \/ \E u \in Upload :
                 /\ Run(u) \/ (DockerMayFail /\ RunFails(u))
                 /\ n = AppName[u] /\ container[n] = None
                 /\ container'[n].id = u /\ container'[n].running
  <1> USE AppAssumption DEF TypeOK
  <1>1. container[n] # None => container[n] \in Container
    OBVIOUS
  <1>2. \A c \in Container : Stopped(c).id = c.id /\ ~Stopped(c).running
    BY DEF Container, Stopped
  <1>3. \A c \in Container : Opened(c).id = c.id /\ Opened(c).running = c.running
    BY DEF Container, Opened
  <1>4. ASSUME NEW m \in Name, DockerStop(m) \/ DockerRm(m) \/ UNCHANGED container
        PROVE  /\ container[n] # None
               /\ container'[n].id = container[n].id
               /\ container'[n].running => container[n].running
    BY <1>1, <1>2, <1>4 DEF DockerStop, DockerRm
  <1>5. ASSUME NEW u \in Upload, container[AppName[u]] = None, Started(u)
        PROVE  \/ /\ container[n] # None
                  /\ container'[n].id = container[n].id
                  /\ container'[n].running => container[n].running
               \/ /\ n = AppName[u] /\ container[n] = None
                  /\ container'[n].id = u /\ container'[n].running
    BY <1>5 DEF Started
  <1>6. ASSUME NEW u \in Upload, RemoveStale(u)
        PROVE  container'[n] = container[n]
    BY <1>6 DEF RemoveStale
  <1>7. ASSUME NEW m \in Name, AppListens(m)
        PROVE  /\ container[n] # None
               /\ container'[n].id = container[n].id
               /\ container'[n].running => container[n].running
    BY <1>1, <1>3, <1>7 DEF AppListens
  <1> QED
    BY <1>4, <1>5, <1>6, <1>7, Moves
    DEF Run, RunFails, CleanStop, CleanRm, StopContainer, StopRm, ShutdownStops

LEMMA ContainersNext ==
    ASSUME TypeOK, StepsWF, ContainersWF, [Next]_vars
    PROVE  ContainersWF'
  <1> SUFFICES ASSUME NEW n \in Name, container'[n] # None
               PROVE  /\ AppName[container'[n].id] = n
                      /\ pc'[container'[n].id] \in AfterRun
    BY DEF ContainersWF
  <1>1. CASE container[n] # None /\ container'[n].id = container[n].id
    BY <1>1, Progress DEF ContainersWF, TypeOK, Container
  <1>2. ASSUME NEW u \in Upload, Run(u) \/ RunFails(u), n = AppName[u],
               container'[n].id = u
        PROVE  /\ AppName[container'[n].id] = n
               /\ pc'[container'[n].id] \in AfterRun
    BY <1>2 DEF Run, RunFails, Go, AfterRun, TypeOK, Request
  <1> QED
    BY <1>1, <1>2, ContainerSteps

LEMMA BuildsNext ==
    ASSUME TypeOK, StepsWF, BuildsWF, [Next]_vars
    PROVE  BuildsWF'
  <1> SUFFICES ASSUME NEW n \in Name, pendingBuilds'[n] # None
               PROVE  /\ AppName[pendingBuilds'[n]] = n
                      /\ pendingBuilds'[n] \notin finished'
                             => pc'[pendingBuilds'[n]] \in Building
    BY DEF BuildsWF
  <1> USE AppAssumption, DisjointAssumption DEF TypeOK, Request, Building
  <1>1. ASSUME NEW u \in Upload, StoreBuild(u), n = AppName[u]
        PROVE  pendingBuilds'[n] = u /\ pc'[u] \in Building
    BY <1>1 DEF StoreBuild, Go
  <1>2. CASE \A u \in Upload : StoreBuild(u) => n # AppName[u]
    <2>1. ~Restart
      BY DEF Restart, RestartMissing
    <2>2. pendingBuilds'[n] = pendingBuilds[n]
      BY <1>2, <2>1, Moves DEF StoreBuild, SnapshotFails, DeleteBuild, DismissBuild
    <2> DEFINE v == pendingBuilds[n]
    <2>3. v \in Upload /\ AppName[v] = n
      BY <2>2 DEF BuildsWF
    <2>4. finished \subseteq finished'
      BY <2>1, Moves DEF BuildFails, RunFails, DetectTimeout, PromoteError
    <2>5. ASSUME v \notin finished', pc[v] \in Building PROVE pc'[v] \in Building
      <3>1. CASE pc'[v] = pc[v]
        BY <2>5, <3>1
      <3>2. CASE UploadStep(v)
        <4>1. ~SnapshotFails(v) /\ ~DeleteBuild(v)
          BY <2>2, <2>3 DEF SnapshotFails, DeleteBuild
        <4>2. ~BuildFails(v) /\ ~RunFails(v) /\ ~DetectTimeout(v)
          BY <2>3, <2>5 DEF BuildFails, RunFails, DetectTimeout
        <4> QED
          BY <2>3, <2>5, <3>2, <4>1, <4>2
          DEF UploadStep, CheckApp, CheckBuild, Unpack, StoreBuild, SnapshotPorts,
              Build, BuildHangs, RemoveStale, Run, Detect, CleanStop, CleanRm,
              RemoveDir, StoreApp, Go
      <3>3. ~SaveStep(v) /\ ~Evict(v)
        BY <2>5 DEF SaveStep, SaveRange, SaveTruncate, SaveWrite, AfterSave, Evict, Go
      <3> QED
        BY <2>1, <2>3, <3>1, <3>2, <3>3, OwnStep
    <2> QED
      BY <2>2, <2>3, <2>4, <2>5 DEF BuildsWF
  <1> QED
    BY <1>1, <1>2

LEMMA DirsNext ==
    ASSUME TypeOK, StepsWF, AppsWF, DirsWF, [Next]_vars
    PROVE  DirsWF'
  <1> USE DisjointAssumption, AppAssumption DEF TypeOK, Request
  <1> SUFFICES ASSUME NEW u \in Upload
               PROVE  /\ pc'[u] \in HasDir => u \in dirs'
                      /\ u \in dirs' => pc'[u] \notin {"new", "checkBuild", "unpack",
                                                       "refused", "failed"}
    BY DEF DirsWF
  <1>1. CASE Unpack(u)
    BY <1>1 DEF Unpack, Go, HasDir, DirsWF
  <1>2. CASE RemoveDir(u)
    BY <1>2 DEF RemoveDir, Go, HasDir
  <1>3. CASE ~Unpack(u) /\ ~RemoveDir(u)
    <2>1. u \in dirs' => u \in dirs
      BY <1>3, Moves DEF Unpack, RemoveDir, StopRemoveDir
    <2>2. pc[u] \in HasDir => u \in dirs'
      <3>1. ASSUME NEW x \in Stop, StopRemoveDir(x), target[x].id = u
            PROVE  pc[u] \in Stored
        BY <3>1 DEF StopRemoveDir, Go, AppsWF, Fits, Stopping
      <3>2. pc[u] \in HasDir => u \in dirs /\ pc[u] \notin Stored
        BY DEF DirsWF, HasDir, Stored, Saving
      <3> QED
        BY <1>3, <3>1, <3>2, Moves DEF Unpack, RemoveDir, StopRemoveDir
    <2>3. CASE pc'[u] = pc[u]
      BY <2>1, <2>2, <2>3 DEF DirsWF
    <2>4. CASE Restart
      BY <2>1, <2>4 DEF Restart, RestartMissing, Ended, HasDir, DirsWF
    <2>5. CASE SaveStep(u)
      BY <2>5 DEF SaveStep, SaveRange, SaveTruncate, SaveWrite, AfterSave, Go, HasDir
    <2>6. CASE UploadStep(u) \/ Evict(u)
      <3>1. pc'[u] \in HasDir => pc[u] \in HasDir
        BY <1>3, <2>6
        DEF UploadStep, CheckApp, CheckBuild, StoreBuild, SnapshotPorts,
            SnapshotFails, Build, BuildHangs, BuildFails, RemoveStale, Run, RunFails,
            Detect, DetectTimeout, CleanStop, CleanRm, StoreApp, DeleteBuild,
            Evict, Go, HasDir
      <3>2. pc'[u] \in {"new", "checkBuild", "unpack", "refused", "failed"}
                => pc[u] \in {"new", "checkBuild", "unpack", "refused", "failed"}
        BY <1>3, <2>6
        DEF UploadStep, CheckApp, CheckBuild, StoreBuild, SnapshotPorts,
            SnapshotFails, Build, BuildHangs, BuildFails, RemoveStale, Run, RunFails,
            Detect, DetectTimeout, CleanStop, CleanRm, StoreApp, DeleteBuild,
            Evict, Go
      <3> QED
        BY <2>1, <2>2, <3>1, <3>2 DEF DirsWF
    <2> QED
      BY <2>3, <2>4, <2>5, <2>6, OwnStep
  <1> QED
    BY <1>1, <1>2, <1>3

-----------------------------------------------------------------------------
(* An upload that is alone *)

(* What is served, run or being stopped under its name is its own. *)
LEMMA OwnThings ==
    ASSUME TypeOK, AppsWF, ContainersWF, NEW u \in Upload, Alone(u)
    PROVE  /\ AppName[u] \in Name
           /\ deployedApps[AppName[u]] # None =>
                  deployedApps[AppName[u]].id = u /\ pc[u] \in Stored
           /\ container[AppName[u]] # None => container[AppName[u]].id = u
           /\ \A x \in Stop :
                 StopName[x] = AppName[u] /\ pc[x] \in Stopping \cup Saving =>
                     target[x] # None /\ target[x].id = u /\ pc[u] \in Stored
  <1> USE AppAssumption DEF TypeOK
  <1>1. AppName[u] \in Name
    OBVIOUS
  <1>2. ASSUME NEW v \in Upload, AppName[v] = AppName[u], pc[v] \in AfterRun
        PROVE  v = u
    BY <1>2 DEF Alone, AfterRun, Stored, Saving
  <1>3. Stored \subseteq AfterRun
    BY DEF AfterRun
  <1>4. ASSUME NEW app \in App \cup {None}, app # None, Fits(app, AppName[u])
        PROVE  app.id = u /\ pc[u] \in Stored
    BY <1>2, <1>3, <1>4 DEF Fits, App
  <1>5. deployedApps[AppName[u]] # None =>
            deployedApps[AppName[u]].id = u /\ pc[u] \in Stored
    <2>1. /\ deployedApps[AppName[u]] \in App \cup {None}
          /\ Fits(deployedApps[AppName[u]], AppName[u])
      BY <1>1 DEF AppsWF, Apps
    <2> QED
      BY <1>4, <2>1
  <1>6. container[AppName[u]] # None => container[AppName[u]].id = u
    BY <1>1, <1>2 DEF ContainersWF, Container
  <1>7. ASSUME NEW x \in Stop, StopName[x] = AppName[u],
               pc[x] \in Stopping \cup Saving
        PROVE  target[x] # None /\ target[x].id = u /\ pc[u] \in Stored
    <2>1. /\ target[x] \in App \cup {None}
          /\ target[x] # None
          /\ Fits(target[x], AppName[u])
      BY <1>7 DEF AppsWF
    <2> QED
      BY <1>4, <2>1
  <1> QED
    BY <1>1, <1>5, <1>6, <1>7

(* Nobody else of its name comes to touch the container, the map or the file. *)
LEMMA NobodyElse ==
    ASSUME TypeOK, NEW u \in Upload, Alone(u), NEW v \in Upload,
           AppName[v] = AppName[u],
           pc[v] \notin {"new", "checkBuild", "refused"}
    PROVE  v = u
  BY DEF Alone

(* How a container stops or goes away. *)
LEMMA RunsLost ==
    ASSUME TypeOK, [Next]_vars, NEW u \in Upload, Runs(u), ~Runs(u)'
    PROVE  \/ \E v \in Upload : /\ AppName[v] = AppName[u]
                                /\ RemoveStale(v) \/ CleanStop(v)
           \/ \E x \in Stop : StopName[x] = AppName[u] /\ StopContainer(x)
           \/ ShutdownStops(AppName[u])
  <1> USE AppAssumption DEF TypeOK, Runs
  <1> DEFINE n == AppName[u]
  <1>1. n \in Name /\ container[n] \in Container /\ container[n] # None
    OBVIOUS
  <1>2. ASSUME NEW m \in Name, m # n,
               \/ DockerStop(m) \/ DockerRm(m) \/ AppListens(m)
               \/ \E v \in Upload : AppName[v] = m /\ (Started(v) \/ RemoveStale(v))
        PROVE  container'[n] = container[n]
    BY <1>2, ZenonT(30) DEF DockerStop, DockerRm, AppListens, Started, RemoveStale
  <1>3. ASSUME NEW m \in Name, DockerRm(m) PROVE Runs(u)'
    BY <1>1, <1>2, <1>3 DEF DockerRm
  <1>4. ASSUME NEW v \in Upload, Run(v) \/ RunFails(v) PROVE Runs(u)'
    BY <1>1, <1>4 DEF Run, RunFails, Started
  <1>5. ASSUME NEW m \in Name, AppListens(m) PROVE Runs(u)'
    <2>1. container'[n] \in {container[n], Opened(container[n])}
      BY <1>1, <1>5 DEF AppListens
    <2>2. /\ Opened(container[n]).id = container[n].id
          /\ Opened(container[n]).running = container[n].running
          /\ Opened(container[n]) \in Container
      BY <1>1 DEF Opened, Container
    <2> QED
      BY <2>1, <2>2, MarkAssumption
  <1> QED
    BY <1>1, <1>2, <1>3, <1>4, <1>5, Moves
    DEF CleanStop, CleanRm, StopContainer, StopRm, ShutdownStops

LEMMA AloneRunsNext ==
    ASSUME TypeOK, StepsWF, AppsWF, ContainersWF, AloneRuns, [Next]_vars
    PROVE  AloneRuns'
  <1> SUFFICES ASSUME NEW u \in Upload, Alone(u)', phase' = "up"
               PROVE  /\ pc'[u] \in {"detect", "storeApp"} => Runs(u)'
                      /\ /\ deployedApps'[AppName[u]] # None
                         /\ \A x \in Stop : StopName[x] = AppName[u] =>
                                pc'[x] \notin {"rm", "rmAppDir", "delete"}
                         => Runs(u)'
    BY DEF AloneRuns
  <1> USE AppAssumption, DisjointAssumption DEF TypeOK, Request
  <1>1. Alone(u)
    BY Progress
  <1>2. CASE Restart
    <2>1. pc'[u] \notin {"detect", "storeApp"}
      BY <1>2 DEF Restart, RestartMissing, Ended
    <2>2. ASSUME deployedApps'[AppName[u]] # None PROVE Runs(u)'
      <3>1. container' = container /\ Restored(AppName[u])
        BY <1>2, <2>2 DEF Restart, RestartMissing, host
      <3> QED
        BY <1>1, <3>1, OwnThings DEF Restored, Runs
    <2> QED
      BY <2>1, <2>2
  <1>3. CASE ~Restart
    <2>1. phase = "up"
      BY <1>3, Moves DEF Crash, Shutdown, Exit
    <2>2. ~ShutdownStops(AppName[u])
      BY <2>1 DEF ShutdownStops
    <2>3. ASSUME pc'[u] \in {"detect", "storeApp"} PROVE Runs(u)'
      <3>1. CASE pc[u] \in {"detect", "storeApp"}
        <4>1. Runs(u)
          BY <1>1, <2>1, <3>1 DEF AloneRuns
        <4>2. ASSUME NEW v \in Upload, AppName[v] = AppName[u]
              PROVE  ~RemoveStale(v) /\ ~CleanStop(v)
          BY <1>1, <3>1, <4>2, NobodyElse DEF RemoveStale, CleanStop, Go
        <4>3. ASSUME NEW x \in Stop, StopName[x] = AppName[u]
              PROVE  ~StopContainer(x)
          BY <1>1, <3>1, <4>3, OwnThings
          DEF StopContainer, Go, Stopping, Stored, Saving
        <4> QED
          BY <2>2, <4>1, <4>2, <4>3, RunsLost
      <3>2. CASE Run(u)
        <4>1. AppName[u] \in Name /\ u # None
          OBVIOUS
        <4>2. container'[AppName[u]] = [id |-> u, running |-> TRUE, listening |-> FALSE]
          BY <3>2, <4>1 DEF Run, Started
        <4>3. container'[AppName[u]] # None
          <5>1. container'[AppName[u]] \in Container
            BY <4>2 DEF Container
          <5> QED
            BY <5>1, MarkAssumption
        <4>4. container'[AppName[u]].id = u /\ container'[AppName[u]].running
          BY <4>2
        <4> QED
          BY <4>3, <4>4 DEF Runs
      <3>3. pc[u] \in {"detect", "storeApp"} \/ Run(u)
        <4>1. ~SaveStep(u) /\ ~Evict(u)
          BY <2>3 DEF SaveStep, SaveRange, SaveTruncate, SaveWrite, AfterSave, Evict, Go
        <4>2. UploadStep(u) => Detect(u) \/ Run(u)
          BY <2>3
          DEF UploadStep, CheckApp, CheckBuild, Unpack, StoreBuild, SnapshotPorts,
              SnapshotFails, Build, BuildHangs, BuildFails, RemoveStale, RunFails,
              DetectTimeout, CleanStop, CleanRm, RemoveDir, StoreApp, DeleteBuild, Go
        <4>3. Detect(u) => pc[u] = "detect"
          BY DEF Detect, Go
        <4> QED
          BY <1>3, <2>3, <4>1, <4>2, <4>3, OwnStep
      <3> QED
        BY <3>1, <3>2, <3>3
    <2>4. ASSUME deployedApps'[AppName[u]] # None,
                 \A x \in Stop : StopName[x] = AppName[u] =>
                     pc'[x] \notin {"rm", "rmAppDir", "delete"}
          PROVE  Runs(u)'
      <3>1. CASE StoreApp(u)
        <4>1. container' = container /\ pc[u] = "storeApp"
          BY <3>1 DEF StoreApp, Go, host
        <4> QED
          BY <1>1, <2>1, <4>1 DEF AloneRuns, Runs
      <3>2. CASE ~StoreApp(u)
        <4>1. \A v \in Upload : StoreApp(v) => AppName[v] # AppName[u]
          BY <1>1, <3>2, NobodyElse DEF StoreApp, Go
        <4>2. deployedApps[AppName[u]] # None
          BY <1>3, <2>4, <4>1, Moves DEF StoreApp, StopDelete, Apps
        <4>3. ASSUME NEW x \in Stop, StopName[x] = AppName[u]
              PROVE  pc[x] \notin {"rm", "rmAppDir", "delete"}
          <5>1. ~StopDelete(x)
            BY <2>4, <4>3 DEF StopDelete, Apps
          <5>2. (SaveStep(x) \/ StopStep(x)) /\ pc[x] \in {"rm", "rmAppDir", "delete"}
                    => pc'[x] \in {"rmAppDir", "delete"}
            BY <5>1
            DEF SaveStep, SaveRange, SaveTruncate, SaveWrite, AfterSave, StopStep,
                StopLoad,
                StopContainer, StopRm, StopRemoveDir, Go
          <5> QED
            BY <1>3, <2>4, <4>3, <5>2, OwnStep
        <4>4. Runs(u)
          BY <1>1, <2>1, <4>2, <4>3 DEF AloneRuns
        <4>5. pc[u] \in Stored
          BY <1>1, <4>2, OwnThings
        <4>6. ASSUME NEW v \in Upload, AppName[v] = AppName[u]
              PROVE  ~RemoveStale(v) /\ ~CleanStop(v)
          BY <1>1, <4>5, <4>6, NobodyElse DEF RemoveStale, CleanStop, Go, Stored, Saving
        <4>7. ASSUME NEW x \in Stop, StopName[x] = AppName[u]
              PROVE  ~StopContainer(x)
          BY <2>4, <4>7 DEF StopContainer, Go
        <4> QED
          BY <2>2, <4>4, <4>6, <4>7, RunsLost
      <3> QED
        BY <3>1, <3>2
    <2> QED
      BY <2>3, <2>4
  <1> QED
    BY <1>2, <1>3

-----------------------------------------------------------------------------
(* The inductive invariant *)

LEMMA InitIInv == Init => IInv
  <1> USE AppAssumption, DisjointAssumption, MarkAssumption
      DEF Init, NoApps, Request
  <1>1. Init => TypeOK
    BY TypeInit
  <1>2. Init => StepsWF
    BY DEF StepsWF, Stopping
  <1>3. Init => AppsWF
    <2> SUFFICES ASSUME Init PROVE AppsWF
      OBVIOUS
    <2>1. \A x \in Stop : pc[x] = "new" /\ target[x] = None
      OBVIOUS
    <2> QED
      BY <2>1 DEF AppsWF, Fits, Stopping, Saving
  <1>4. Init => ContainersWF /\ BuildsWF /\ DirsWF
    BY DEF ContainersWF, BuildsWF, DirsWF, HasDir
  <1>5. Init => AloneRuns
    BY DEF AloneRuns
  <1> QED
    BY <1>1, <1>2, <1>3, <1>4, <1>5 DEF IInv

LEMMA NextIInv == IInv /\ [Next]_vars => IInv'
  <1> SUFFICES ASSUME IInv, [Next]_vars PROVE IInv'
    OBVIOUS
  <1> USE DEF IInv
  <1>1. TypeOK'
    BY TypeNext
  <1>2. StepsWF'
    BY StepsNext
  <1>3. AppsWF'
    BY AppsNext
  <1>4. ContainersWF'
    BY ContainersNext
  <1>5. BuildsWF'
    BY BuildsNext
  <1>6. DirsWF'
    BY DirsNext
  <1>7. AloneRuns'
    BY AloneRunsNext
  <1> QED
    BY <1>1, <1>2, <1>3, <1>4, <1>5, <1>6, <1>7

-----------------------------------------------------------------------------
(* What holds whatever docker does *)

(* The variables have their types in every state of the server. *)
THEOREM TypeCorrect == Spec => []TypeOK
  <1>1. IInv => TypeOK
    BY DEF IInv
  <1> QED
    BY <1>1, InitIInv, NextIInv, PTL DEF Spec

(* The inductive invariant: who is where, whose app, container, directory and
   build everything is, and that an upload nobody overtakes has its container
   and its line in the state file. *)
THEOREM Invariant == Spec => []IInv
  BY InitIInv, NextIInv, PTL DEF Spec

(* A build the dashboard shows as running is being worked on (deploy.go:221-322),
   with any number of overlapping uploads. *)
THEOREM NoGhosts == Spec => []NoGhostBuild
  <1>1. IInv => NoGhostBuild
    BY DEF IInv, BuildsWF, NoGhostBuild
  <1> QED
    BY <1>1, Invariant, PTL

-----------------------------------------------------------------------------
(* The state file *)

(* Who saves the state does nothing else. *)
LEMMA SaverSteps ==
    ASSUME TypeOK, StepsWF, [Next]_vars, ~Restart, NEW w \in Request
    PROVE  /\ pc[w] \in Saving /\ pc'[w] # pc[w] => SaveStep(w)
           /\ pc'[w] \in Writing /\ pc'[w] # pc[w] => SaveStep(w)
           /\ pc[w] = "deleteBuild" => pc'[w] \in {"deleteBuild", "range"}
  <1> USE DisjointAssumption DEF TypeOK, Request, Go, Saving, Writing
  <1>1. CASE pc'[w] = pc[w]
    BY <1>1
  <1>2. CASE SaveStep(w)
    BY <1>2 DEF SaveStep, SaveRange, SaveTruncate, SaveWrite
  <1>3. CASE w \in Upload /\ (UploadStep(w) \/ Evict(w))
    BY <1>3
    DEF UploadStep, CheckApp, CheckBuild, Unpack, StoreBuild, SnapshotPorts,
        SnapshotFails, Build, BuildHangs, BuildFails, RemoveStale, Run, RunFails,
        Detect, DetectTimeout, CleanStop, CleanRm, RemoveDir, StoreApp,
        DeleteBuild, Evict
  <1>4. CASE w \in Stop /\ StopStep(w)
    BY <1>4 DEF StopStep, StopLoad, StopContainer, StopRm, StopRemoveDir, StopDelete
  <1> QED
    BY <1>1, <1>2, <1>3, <1>4, OwnStep

(* A step of a save touches what that save is about. *)
LEMMA SaveMoves ==
    ASSUME TypeOK, NEW w \in Request, SaveStep(w)
    PROVE  /\ pc[w] \in Saving /\ pc' = [pc EXCEPT ![w] = pc'[w]]
           /\ deployedApps' = deployedApps
           /\ \/ /\ SaveRange(w)
                 /\ pc[w] = "range" /\ pc'[w] = "truncate"
                 /\ marshalled' = [marshalled EXCEPT ![w] = deployedApps]
                 /\ disk' = disk
              \/ /\ pc[w] = "truncate" /\ pc'[w] = "write"
                 /\ marshalled' = marshalled /\ disk' = Torn
              \/ /\ pc[w] \in Writing /\ pc'[w] \notin Writing \cup Unsaved
                 /\ marshalled' = marshalled
  <1> USE DEF TypeOK, Saving, Writing, Unsaved, Go, memory, locals
  <1>1. CASE SaveRange(w)
    BY <1>1 DEF SaveRange
  <1>2. CASE SaveTruncate(w)
    BY <1>2 DEF SaveTruncate, AfterSave
  <1>3. CASE SaveWrite(w)
    BY <1>3 DEF SaveWrite, AfterSave
  <1> QED
    BY <1>1, <1>2, <1>3 DEF SaveStep

(* What is served and saved was so before, when no save does a step. *)
LEMMA StillServed ==
    ASSUME TypeOK, StepsWF, AppsWF, [Next]_vars, ~Restart,
           \A w \in Request : ~SaveStep(w),
           NEW n \in Name, deployedApps'[n] # None,
           pc'[deployedApps'[n].id] \notin {"deleteBuild", "range"}
    PROVE  /\ deployedApps'[n] = deployedApps[n]
           /\ pc[deployedApps[n].id] \notin {"deleteBuild", "range"}
           /\ pc[deployedApps[n].id] = "truncate" =>
                  pc'[deployedApps[n].id] = "truncate"
  <1> USE AppAssumption DEF TypeOK, Request
  <1>1. deployedApps'[n] = deployedApps[n]
    <2>1. ASSUME NEW u \in Upload, StoreApp(u), AppName[u] = n PROVE FALSE
      BY <2>1 DEF StoreApp, Go, Apps
    <2> QED
      BY <2>1, Moves DEF StoreApp, StopDelete, Apps
  <1>2. deployedApps[n].id \in Upload
    BY <1>1 DEF Apps, App
  <1> QED
    BY <1>1, <1>2, SaverSteps DEF Saving

LEMMA WatchNextInv ==
    ASSUME IInv, WatchInv, [WatchNext]_watchVars
    PROVE  WatchInv'
  <1> USE DEF IInv, WatchInv
  <1>1. CASE UNCHANGED watchVars
    BY <1>1
    DEF watchVars, vars, memory, locals, host, process, FileWF, SavesWF, Others
  <1>2. CASE WatchNext /\ Restart
    <2>1. overlapped' = {} /\ stale' = FALSE
      BY <1>2 DEF WatchNext, Record, Restart, RestartMissing, Restarts
    <2>2. \A w \in Request : pc'[w] \notin Writing
      BY <1>2 DEF Restart, RestartMissing, Writing, Ended
    <2>3. \A n \in Name : deployedApps'[n] # None =>
              disk' # Torn /\ disk'[n] = deployedApps'[n]
      BY <1>2 DEF Restart, RestartMissing, Restored
    <2>4. FileWF'
      BY <2>3 DEF FileWF
    <2>5. SavesWF'
      BY <2>2 DEF SavesWF
    <2> QED
      BY <2>4, <2>5
  <1>3. CASE WatchNext /\ ~Restart
    <2>1. [Next]_vars /\ ~Restarts /\ Record
      BY <1>3, Moves DEF WatchNext, Restarts, Crash, Shutdown, Exit
    <2>2. \A n \in Name : deployedApps[n] # None => deployedApps[n].id \in Upload
      BY DEF TypeOK, Apps, App
    <2>3. ASSUME NEW w \in Request, SaveRange(w) PROVE WatchInv'
      <3>1. /\ pc[w] = "range" /\ pc' = [pc EXCEPT ![w] = "truncate"]
            /\ deployedApps' = deployedApps /\ disk' = disk
            /\ marshalled' = [marshalled EXCEPT ![w] = deployedApps]
        BY <2>3 DEF SaveRange, Go, memory
      <3>2. /\ pc'[w] = "truncate" /\ marshalled'[w] = deployedApps
            /\ \A v \in Request \ {w} : pc'[v] = pc[v] /\ marshalled'[v] = marshalled[v]
        BY <3>1 DEF TypeOK
      <3>3. overlapped' = overlapped \cup Meet(w) /\ stale' = stale
        BY <2>1, <3>1, <3>2 DEF Record, Begins, Ends, Writing
      <3>4. \A v \in Request : /\ (pc'[v] = "write") = (pc[v] = "write")
                               /\ (pc'[v] \in Unsaved) = (pc[v] \in Unsaved)
        BY <3>1, <3>2 DEF Unsaved
      <3>5. FileWF'
        BY <2>2, <3>1, <3>3, <3>4 DEF FileWF, Request
      <3>6. ASSUME NEW v \in Request, v \notin overlapped', pc'[v] \in Writing
            PROVE  v = w /\ Others(w) = {}
        BY <3>2, <3>3, <3>6 DEF Meet, Others
      <3>7. Others(w)' = Others(w)
        BY <3>2 DEF Others
      <3>8. SavesWF'
        BY <3>1, <3>2, <3>6, <3>7 DEF SavesWF
      <3> QED
        BY <3>5, <3>8
    <2>4. ASSUME NEW w \in Request, SaveStep(w), pc'[w] = "write" PROVE WatchInv'
      <3>1. /\ pc[w] = "truncate" /\ pc' = [pc EXCEPT ![w] = "write"]
            /\ deployedApps' = deployedApps /\ disk' = Torn
            /\ marshalled' = marshalled
        BY <2>4, SaveMoves DEF Writing
      <3>2. \A v \in Request \ {w} : pc'[v] = pc[v]
        BY <3>1 DEF TypeOK
      <3>3. overlapped' = overlapped /\ stale' = stale
        BY <2>1, <2>4, <3>1, <3>2 DEF Record, Begins, Ends, Writing
      <3>4. FileWF'
        BY <2>4 DEF FileWF
      <3>5. \A v \in Request : /\ (pc'[v] \in Writing) = (pc[v] \in Writing)
                               /\ pc'[v] \notin {"deleteBuild", "range"} =>
                                      pc[v] \notin {"deleteBuild", "range"}
        BY <2>4, <3>1, <3>2 DEF Writing
      <3>6. \A v \in Request : Others(v)' = Others(v)
        BY <3>5 DEF Others
      <3>7. ASSUME NEW v \in Request, v \notin overlapped', pc'[v] \in Writing
            PROVE  /\ Others(v)' = {} /\ disk' = Torn
                   /\ \A n \in Name :
                         deployedApps'[n] # None
                         /\ pc'[deployedApps'[n].id] \notin {"deleteBuild", "range"} =>
                             marshalled'[v][n] = deployedApps'[n]
        BY <2>2, <3>1, <3>3, <3>5, <3>6, <3>7 DEF SavesWF, Request
      <3>8. SavesWF'
        BY <3>7 DEF SavesWF
      <3> QED
        BY <3>4, <3>8
    <2>5. ASSUME NEW w \in Request, SaveStep(w), Ends(w) PROVE WatchInv'
      <3>1. /\ pc[w] \in Writing /\ pc'[w] \notin Writing \cup Unsaved
            /\ pc' = [pc EXCEPT ![w] = pc'[w]]
            /\ deployedApps' = deployedApps /\ marshalled' = marshalled
        BY <2>5, SaveMoves DEF Ends, Writing
      <3>2. \A v \in Request \ {w} : pc'[v] = pc[v]
        BY <3>1 DEF TypeOK
      <3>3. /\ overlapped' = overlapped \ {w}
            /\ stale' = (w \in overlapped \/ disk' # marshalled[w])
        BY <2>1, <2>5, <3>1, <3>2 DEF Record, Begins, Ends, Writing
      <3>4. ASSUME ~stale', NEW n \in Name, deployedApps'[n] # None,
                   pc'[deployedApps'[n].id] \notin Unsaved
            PROVE  disk' # Torn /\ disk'[n] = deployedApps'[n]
        <4>1. w \notin overlapped /\ disk' = marshalled[w]
          BY <3>3, <3>4
        <4>2. pc[deployedApps[n].id] \notin {"deleteBuild", "range"}
          BY <2>2, <3>1, <3>2, <3>4 DEF Unsaved, Writing, Request
        <4>3. marshalled[w][n] = deployedApps[n]
          BY <3>1, <3>4, <4>1, <4>2 DEF SavesWF
        <4>4. disk' # Torn
          BY <4>1, MarkAssumption DEF TypeOK
        <4> QED
          BY <3>1, <4>1, <4>3, <4>4
      <3>5. FileWF'
        BY <3>4 DEF FileWF
      <3>6. ASSUME NEW v \in Request, v \notin overlapped', pc'[v] \in Writing
            PROVE  FALSE
        <4>1. v # w /\ v \notin overlapped /\ pc[v] \in Writing
          BY <3>1, <3>2, <3>3, <3>6
        <4>2. w \in Others(v)
          BY <3>1, <4>1 DEF Others
        <4> QED
          BY <4>1, <4>2 DEF SavesWF
      <3>7. SavesWF'
        BY <3>6 DEF SavesWF
      <3> QED
        BY <3>5, <3>7
    <2>6. CASE \A w \in Request : ~SaveStep(w)
      <3>1. disk' = disk /\ marshalled' = marshalled
        BY <1>3, <2>1, <2>6, Moves DEF SaveStep
      <3>2. \A w \in Request : /\ pc[w] \in Saving => pc'[w] = pc[w]
                               /\ pc'[w] \in Writing => pc'[w] = pc[w]
        BY <1>3, <2>1, <2>6, SaverSteps
      <3>3. overlapped' = overlapped /\ stale' = stale
        BY <2>1, <3>2 DEF Record, Begins, Ends, Writing, Saving
      <3>4. \A v \in Request : (pc'[v] \in Writing) = (pc[v] \in Writing)
        BY <3>2 DEF Writing, Saving
      <3>5. \A v \in Request : Others(v)' = Others(v)
        BY <3>4 DEF Others
      <3>6. ASSUME NEW n \in Name, deployedApps'[n] # None,
                   pc'[deployedApps'[n].id] \notin {"deleteBuild", "range"}
            PROVE  /\ deployedApps'[n] = deployedApps[n]
                   /\ pc[deployedApps[n].id] \notin {"deleteBuild", "range"}
                   /\ pc[deployedApps[n].id] = "truncate" =>
                          pc'[deployedApps[n].id] = "truncate"
        BY <1>3, <2>1, <2>6, <3>6, StillServed
      <3>7. (\A w \in Request : pc'[w] # "write") => \A w \in Request : pc[w] # "write"
        BY <3>2 DEF Saving
      <3>8. FileWF'
        BY <3>1, <3>3, <3>6, <3>7 DEF FileWF, Unsaved
      <3>9. SavesWF'
        BY <3>1, <3>2, <3>3, <3>4, <3>5, <3>6 DEF SavesWF
      <3> QED
        BY <3>8, <3>9
    <2> QED
      BY <2>3, <2>4, <2>5, <2>6, SaveMoves DEF Ends, TypeOK
  <1> QED
    BY <1>1, <1>2, <1>3 DEF WatchNext

(* The server dies at any moment and comes back: what its uploads had saved is
   served again (deploy.go:99-161), unless the last save had gone wrong, one was
   between its truncation and its write, or docker has no running container. *)
THEOREM CrashSurvived == WatchSpec => SurvivesCrash
  <1>1. WatchInit => IInv /\ WatchInv
    BY InitIInv
    DEF WatchInit, Init, NoApps, WatchInv, FileWF, SavesWF, Writing
  <1>2. IInv /\ WatchInv /\ [WatchNext]_watchVars => (IInv /\ WatchInv)'
    <2>1. [WatchNext]_watchVars => [Next]_vars
      BY DEF WatchNext, watchVars
    <2> QED
      BY <2>1, NextIInv, WatchNextInv
  <1>3. ASSUME WatchInv, NEW n \in Name,
               deployedApps[n] # None, pc[deployedApps[n].id] \notin Unsaved,
               container[n] # None, container[n].running,
               ~stale, \A w \in Request : pc[w] # "write",
               NEW missed \in SUBSET (Name \ {n}), RestartMissing(missed)
        PROVE  deployedApps'[n] = deployedApps[n]
    <2>1. disk # Torn /\ disk[n] = deployedApps[n]
      BY <1>3 DEF WatchInv, FileWF
    <2>2. Restored(n) /\ n \notin missed
      BY <1>3, <2>1 DEF Restored
    <2> QED
      BY <1>3, <2>1, <2>2 DEF RestartMissing
  <1>4. WatchInv => [Restarts =>
          \A n \in Name :
             /\ deployedApps[n] # None /\ pc[deployedApps[n].id] \notin Unsaved
             /\ container[n] # None /\ container[n].running
             /\ ~stale /\ \A w \in Request : pc[w] # "write"
             /\ \E missed \in SUBSET (Name \ {n}) : RestartMissing(missed)
             => deployedApps'[n] = deployedApps[n]]_watchVars
    BY <1>3
  <1> QED
    BY <1>1, <1>2, <1>4, PTL DEF WatchSpec, SurvivesCrash

-----------------------------------------------------------------------------
(* What holds when docker's commands work *)

LEMMA CleanedUpNext ==
    ASSUME DockerMayFail = FALSE, IInv, CleanedUp, [Next]_vars
    PROVE  CleanedUp'
  <1> SUFFICES ASSUME NEW u \in Upload, container'[AppName[u]] # None,
                      container'[AppName[u]].id = u
               PROVE  /\ pc'[u] \notin {"rmDir", "failed"}
                      /\ pc'[u] = "cleanRm" => ~container'[AppName[u]].running
    BY DEF CleanedUp
  <1> USE AppAssumption, DisjointAssumption DEF IInv, TypeOK, Request
  <1> DEFINE n == AppName[u]
  <1>1. CASE Run(u)
    BY <1>1 DEF Run, Go
  <1>2. CASE ~Run(u)
    <2>1. /\ container[n] # None /\ container[n].id = u
          /\ container'[n].running => container[n].running
      <3>1. \A v \in Upload : Run(v) /\ container'[n].id = v => v = u
        OBVIOUS
      <3> QED
        BY <1>2, <3>1, ContainerSteps
    <2>2. /\ pc[u] \in AfterRun \ {"rmDir", "failed"}
          /\ pc[u] = "cleanRm" => ~container[n].running
      BY <2>1 DEF CleanedUp, ContainersWF
    <2>3. CASE pc'[u] = pc[u]
      BY <2>1, <2>2, <2>3
    <2>4. CASE Restart
      BY <2>2, <2>4 DEF Restart, RestartMissing, Ended
    <2>5. CASE SaveStep(u)
      BY <2>5 DEF SaveStep, SaveRange, SaveTruncate, SaveWrite, AfterSave, Go
    <2>6. CASE CleanStop(u)
      <3>1. container'[n] = Stopped(container[n]) /\ container[n] \in Container
        BY <2>1, <2>6 DEF CleanStop, DockerStop
      <3>2. ~container'[n].running
        BY <3>1 DEF Stopped, Container
      <3> QED
        BY <2>6, <3>2 DEF CleanStop, Go
    <2>7. ~CleanRm(u)
      BY <2>1, <2>2 DEF CleanRm, DockerRm, Go
    <2>8. CASE (UploadStep(u) \/ Evict(u)) /\ ~CleanStop(u)
      BY <1>2, <2>2, <2>7, <2>8
      DEF UploadStep, CheckApp, CheckBuild, Unpack, StoreBuild, SnapshotPorts,
          SnapshotFails, Build, BuildHangs, BuildFails, RemoveStale, RunFails,
          Detect, DetectTimeout, RemoveDir, StoreApp, DeleteBuild, Evict, Go,
          AfterRun, Stored, Saving
    <2> QED
      BY <2>3, <2>4, <2>5, <2>6, <2>8, OwnStep
  <1> QED
    BY <1>1, <1>2

LEMMA StopCleansUpNext ==
    ASSUME DockerMayFail = FALSE, IInv, StopCleansUp, [Next]_vars
    PROVE  StopCleansUp'
  <1> SUFFICES ASSUME NEW x \in Stop, pc'[x] \in {"rm", "rmAppDir", "delete"}
               PROVE  /\ /\ container'[StopName[x]] # None
                         /\ container'[StopName[x]].id = target'[x].id
                         => pc'[x] = "rm" /\ ~container'[StopName[x]].running
                      /\ pc'[x] = "delete" => target'[x].id \notin dirs'
    BY DEF StopCleansUp
  <1> USE AppAssumption, DisjointAssumption DEF IInv, TypeOK, Request
  <1> DEFINE n == StopName[x]
             v == target[x].id
  <1>1. \/ pc[x] = "stop" /\ pc'[x] = "rm" /\ StopContainer(x)
        \/ pc[x] = "rm" /\ pc'[x] = "rmAppDir" /\ StopRm(x)
        \/ pc[x] = "rmAppDir" /\ pc'[x] = "delete" /\ StopRemoveDir(x)
        \/ pc'[x] = pc[x] /\ ~StopContainer(x) /\ ~StopRm(x) /\ ~StopRemoveDir(x)
    <2>1. ~Restart /\ ~SaveStep(x)
      BY
      DEF Restart, RestartMissing, Ended, SaveStep, SaveRange, SaveTruncate,
          SaveWrite, AfterSave, Go
    <2> QED
      BY <2>1, OwnStep
      DEF StopStep, StopLoad, StopContainer, StopRm, StopRemoveDir, StopDelete, Go
  <1>2. target'[x] = target[x]
    BY <1>1, Moves DEF StopLoad, Go, Restart, RestartMissing, Ended
  <1>3. v \in Upload /\ AppName[v] = n /\ pc[v] \in Stored
    BY <1>1 DEF AppsWF, Fits, Stopping, App
  <1>4. container'[n] # None /\ container'[n].id = v =>
            /\ container[n] # None /\ container[n].id = v
            /\ container'[n].running => container[n].running
    BY <1>3, ContainerSteps DEF Run, Go, Stored, Saving
  <1>5. v \notin dirs => v \notin dirs'
    BY <1>3, Moves DEF Unpack, RemoveDir, StopRemoveDir, Go, Stored, Saving
  <1>6. CASE StopContainer(x)
    <2>1. container[n] # None =>
              container'[n] = Stopped(container[n]) /\ container[n] \in Container
      BY <1>6 DEF StopContainer, DockerStop
    <2>2. \A c \in Container : ~Stopped(c).running
      BY DEF Container, Stopped
    <2> QED
      BY <1>2, <1>4, <1>6, <2>1, <2>2 DEF StopContainer, Go
  <1>7. CASE StopRm(x)
    BY <1>1, <1>2, <1>4, <1>7 DEF StopRm, DockerRm, Go, StopCleansUp
  <1>8. CASE StopRemoveDir(x)
    BY <1>1, <1>2, <1>4, <1>8 DEF StopRemoveDir, Go, StopCleansUp
  <1>9. CASE pc'[x] = pc[x]
    BY <1>2, <1>4, <1>5, <1>9 DEF StopCleansUp
  <1> QED
    BY <1>1, <1>6, <1>7, <1>8, <1>9

LEMMA RunningHasDirNext ==
    ASSUME DockerMayFail = FALSE, IInv, CleanedUp, StopCleansUp, RunningHasDir,
           [Next]_vars
    PROVE  RunningHasDir'
  <1> SUFFICES ASSUME NEW n \in Name, container'[n] # None, container'[n].running
               PROVE  container'[n].id \in dirs'
    BY DEF RunningHasDir
  <1> USE AppAssumption, DisjointAssumption DEF IInv, TypeOK, Request
  <1>1. ASSUME NEW u \in Upload, Run(u), container'[n].id = u
        PROVE  container'[n].id \in dirs'
    BY <1>1 DEF Run, Go, DirsWF, HasDir
  <1>2. CASE /\ container[n] # None /\ container'[n].id = container[n].id
             /\ container[n].running
    <2> DEFINE v == container[n].id
    <2>1. v \in Upload /\ AppName[v] = n /\ v \in dirs
      BY <1>2 DEF ContainersWF, Container, RunningHasDir
    <2>2. ~RemoveDir(v)
      BY <1>2, <2>1 DEF RemoveDir, Go, CleanedUp
    <2>3. ASSUME NEW x \in Stop, StopRemoveDir(x) PROVE target[x].id # v
      <3>1. pc[x] = "rmAppDir" /\ target[x] \in App /\ Fits(target[x], StopName[x])
        BY <2>3 DEF StopRemoveDir, Go, AppsWF, Stopping
      <3>2. target[x].id = v => StopName[x] = n
        BY <2>1, <3>1, MarkAssumption DEF Fits
      <3> QED
        BY <1>2, <3>1, <3>2 DEF StopCleansUp
    <2> QED
      BY <1>2, <2>1, <2>2, <2>3, Moves DEF Unpack, RemoveDir, StopRemoveDir
  <1> QED
    BY <1>1, <1>2, ContainerSteps

LEMMA ServedOrGoneNext ==
    ASSUME DockerMayFail = FALSE, IInv, StopCleansUp, ServedOrGone, [Next]_vars
    PROVE  ServedOrGone'
  <1> SUFFICES ASSUME NEW u \in Upload, restarts' = 0, Alone(u)', pc'[u] \in Stored,
                      deployedApps'[AppName[u]] = None
               PROVE  /\ u \notin dirs'
                      /\ ~(container'[AppName[u]] # None
                               /\ container'[AppName[u]].id = u)
    BY DEF ServedOrGone
  <1> USE AppAssumption, DisjointAssumption DEF IInv, TypeOK, Request
  <1> DEFINE n == AppName[u]
  <1>1. ~Restart /\ restarts = 0
    BY Moves DEF Restart, RestartMissing
  <1>2. Alone(u)
    BY Progress
  <1>3. ~StoreApp(u)
    <2>1. ASSUME StoreApp(u) PROVE deployedApps'[n] \in App
      BY <2>1 DEF StoreApp, Apps, App, StepsWF, Go
    <2> QED
      BY <2>1, MarkAssumption
  <1>4. pc[u] \in Stored
    <2>1. UploadStep(u) \/ Evict(u) => pc[u] \in Stored
      BY <1>3
      DEF UploadStep, CheckApp, CheckBuild, Unpack, StoreBuild, SnapshotPorts,
          SnapshotFails, Build, BuildHangs, BuildFails, RemoveStale, Run, RunFails,
          Detect, DetectTimeout, CleanStop, CleanRm, RemoveDir, StoreApp,
          DeleteBuild, Evict, Go, Stored, Saving
    <2>2. SaveStep(u) => pc[u] \in Stored
      BY DEF SaveStep, SaveRange, SaveTruncate, SaveWrite, AfterSave, Go, Stored, Saving
    <2> QED
      BY <1>1, <2>1, <2>2, OwnStep
  <1>5. u \notin dirs => u \notin dirs'
    BY <1>4, Moves DEF Unpack, RemoveDir, StopRemoveDir, Go, Stored, Saving
  <1>6. container'[n] # None /\ container'[n].id = u =>
            container[n] # None /\ container[n].id = u
    BY <1>4, ContainerSteps DEF Run, Go, Stored, Saving
  <1>7. CASE deployedApps[n] = None
    BY <1>1, <1>2, <1>4, <1>5, <1>6, <1>7 DEF ServedOrGone
  <1>8. CASE deployedApps[n] # None
    <2>1. PICK x \in Stop : StopDelete(x) /\ StopName[x] = n
      <3>1. \A v \in Upload : ~(StoreApp(v) /\ AppName[v] = n)
        BY <1>2, <1>3, NobodyElse DEF StoreApp, Go
      <3> QED
        BY <1>1, <1>8, <3>1, Moves DEF StoreApp, StopDelete, Apps
    <2>2. pc[x] = "delete" /\ dirs' = dirs /\ container' = container
      BY <2>1 DEF StopDelete, Go, host
    <2>3. target[x].id = u
      BY <1>2, <2>1, <2>2, OwnThings DEF Stopping
    <2> QED
      BY <2>1, <2>2, <2>3 DEF StopCleansUp
  <1> QED
    BY <1>7, <1>8

(* Docker's commands work, and this is what the server then makes of them. *)
LEMMA DockerWorks ==
    ASSUME DockerMayFail = FALSE
    PROVE  Spec => [](IInv /\ DockerInv)
  <1>1. Init => DockerInv
    BY AppAssumption
    DEF Init, NoApps, Request, DockerInv, CleanedUp, StopCleansUp, RunningHasDir,
        ServedOrGone, Stored, Saving
  <1>2. IInv /\ DockerInv /\ [Next]_vars => DockerInv'
    <2> SUFFICES ASSUME IInv, DockerInv, [Next]_vars PROVE DockerInv'
      OBVIOUS
    <2> USE DEF DockerInv
    <2>1. CleanedUp'
      BY CleanedUpNext
    <2>2. StopCleansUp'
      BY StopCleansUpNext
    <2>3. RunningHasDir'
      BY RunningHasDirNext
    <2>4. ServedOrGone'
      BY ServedOrGoneNext
    <2> QED
      BY <2>1, <2>2, <2>3, <2>4
  <1> QED
    BY <1>1, <1>2, InitIInv, NextIInv, PTL DEF Spec

(* When docker's commands work, a served app that nobody disturbs has its own
   running container and its directory (deploy.go:145-159, 312-321, 357-388),
   through any number of refused uploads, stops, crashes and restarts. *)
THEOREM AppsAreBacked ==
    ASSUME DockerMayFail = FALSE
    PROVE  Spec => []AppBacked
  <1>1. ASSUME IInv, DockerInv, phase = "up", NEW n \in Name, deployedApps[n] # None,
               Undisturbed(deployedApps[n].id)
        PROVE  /\ container[n] # None
               /\ container[n].id = deployedApps[n].id
               /\ container[n].running
               /\ deployedApps[n].id \in dirs
    <2> DEFINE u == deployedApps[n].id
    <2>1. u \in Upload /\ AppName[u] = n
      BY <1>1 DEF IInv, TypeOK, Apps, App, AppsWF, Fits
    <2>2. Alone(u) /\ \A x \in Stop : StopName[x] = n => ~Busy(x)
      BY <1>1, <2>1 DEF Undisturbed
    <2>3. \A x \in Stop : ~Busy(x) => pc[x] \notin {"rm", "rmAppDir", "delete"}
      BY DEF Busy, Ended
    <2>4. Runs(u)
      BY <1>1, <2>1, <2>2, <2>3 DEF IInv, AloneRuns
    <2> QED
      BY <1>1, <2>1, <2>4 DEF Runs, DockerInv, RunningHasDir
  <1>2. IInv /\ DockerInv => AppBacked
    BY <1>1 DEF AppBacked
  <1> QED
    BY <1>2, DockerWorks, PTL

(* When docker's commands work, one life of the process leaves no container and
   no directory behind that is neither worked on nor served (deploy.go:207-310,
   357-388). *)
THEOREM NothingIsLeft ==
    ASSUME DockerMayFail = FALSE
    PROVE  Spec => []NothingLeaks
  <1>1. ASSUME IInv, DockerInv, restarts = 0, NEW u \in Upload, Undisturbed(u),
               ~Busy(u),
               u \in dirs \/ \E n \in Name : container[n] # None /\ container[n].id = u
        PROVE  ServedApp(u)
    <2> USE <1>1 DEF IInv, DockerInv
    <2>1. Alone(u)
      BY DEF Undisturbed
    <2>2. u \in dirs \/ (container[AppName[u]] # None /\ container[AppName[u]].id = u)
      BY DEF ContainersWF
    <2>3. pc[u] \notin {"new", "refused", "failed"}
      BY <2>2, AppAssumption
      DEF DirsWF, CleanedUp, ContainersWF, AfterRun, Stored, Saving
    <2>4. pc[u] \in Stored
      BY <2>3 DEF Busy, Ended, Stored
    <2>5. deployedApps[AppName[u]] # None
      BY <2>1, <2>2, <2>4 DEF ServedOrGone
    <2> QED
      BY <2>1, <2>5, OwnThings DEF ServedApp
  <1>2. IInv /\ DockerInv => NothingLeaks
    BY <1>1 DEF NothingLeaks
  <1> QED
    BY <1>2, DockerWorks, PTL
=============================================================================
