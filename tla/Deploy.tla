------------------------------- MODULE Deploy -------------------------------
(***************************************************************************)
(* Promoted apps (internal/server/deploy.go): uploads that build a project *)
(* and run it in Docker, requests that stop an app, the state file, and    *)
(* the life of the server process: crash, graceful shutdown, restart.      *)
(*                                                                         *)
(* An action is one access to state that others see: a sync.Map, Docker,   *)
(* the list of listening ports, the state file.  Docker, the apps and the  *)
(* other listeners of the host are the environment.                        *)
(***************************************************************************)
EXTENDS Naturals, FiniteSets

CONSTANTS Name,           \* app names; the subdomain is the name
          Upload,         \* POST /promote requests, each with its directory
          Stop,           \* DELETE /promote/<name> requests
          AppName,        \* the name each upload is for
          AppPort,        \* the port each uploaded app wants to listen on
          StopName,       \* the app each stop request names
          Port,           \* ports above 1024 that are no debug ports
          OtherPorts,     \* those other programs and TCP tunnels may open
          DockerMayFail,  \* docker stop, rm and run may time out or fail
          StateMayFail,   \* saving the apps or taking them back may fail
          LongLines,      \* nixpacks may print a line of more than 64 KiB
          MaxRestarts,    \* bound: how often the process comes back
          None, Torn      \* Torn: the state file does not parse

ASSUME AppAssumption == /\ AppName \in [Upload -> Name]
                        /\ AppPort \in [Upload -> Port]
                        /\ StopName \in [Stop -> Name]
                        /\ OtherPorts \subseteq Port
ASSUME DisjointAssumption == /\ Upload \cap Stop = {}
                             /\ None \notin Upload \cup Stop \cup Port
                             /\ {DockerMayFail, StateMayFail, LongLines} \subseteq BOOLEAN
                             /\ MaxRestarts \in Nat

VARIABLES deployedApps,   \* name -> the app served under it, or None
          pendingBuilds,  \* name -> the upload whose build is shown, or None
          finished,       \* uploads whose pendingBuild is done
          pc,             \* where each request handler is
          known,          \* the ports each upload saw before its container
          found,          \* the port it detected
          target,         \* the app each stop request is stopping
          marshalled,     \* what each saveState is about to write
          dirs,           \* the extracted project directories on disk
          container,      \* name -> the container 2nnel-<name>, or None
          others,         \* ports other programs listen on
          disk,           \* the state file
          phase,          \* the process: up, stopping or down
          toStop,         \* apps stopAllDeployedApps has still to stop
          restarts

memory == <<deployedApps, pendingBuilds, finished>>
locals == <<known, found, target, marshalled>>
host == <<container, others>>
process == <<phase, toStop, restarts>>
vars == <<memory, pc, locals, dirs, host, disk, process>>

Request == Upload \cup Stop

\* deployedApp: id stands for its containerID and its directory.
App == [id : Upload, port : Port]
Container == [id : Upload, running : BOOLEAN, listening : BOOLEAN]
Apps == [Name -> App \cup {None}]
ASSUME MarkAssumption == None \notin App \cup Container /\ Torn \notin Apps
NoApps == [n \in Name |-> None]

\* From pendingBuilds.Store to pendingBuilds.Delete or build.finish.
Building == {"snapshot", "build", "stuck", "rmStale", "run", "detect",
             "storeApp", "deleteBuild"}
Saving == {"range", "truncate", "write"}
Ended == {"refused", "failed", "done", "dead"}
Steps == {"new", "checkBuild", "unpack", "storeBuild"} \cup Building
    \cup {"cleanStop", "cleanRm", "rmDir", "evict"} \cup Saving
    \cup {"stop", "rm", "rmAppDir", "delete"} \cup Ended

Init == /\ deployedApps = NoApps
        /\ pendingBuilds = [n \in Name |-> None]
        /\ finished = {}
        /\ pc = [w \in Request |-> "new"]
        /\ known = [u \in Upload |-> {}]
        /\ found = [u \in Upload |-> None]
        /\ target = [x \in Stop |-> None]
        /\ marshalled = [w \in Request |-> NoApps]
        /\ dirs = {}
        /\ container = [n \in Name |-> None]
        /\ others \in SUBSET OtherPorts
        /\ disk = NoApps
        /\ phase = "up"
        /\ toStop = {}
        /\ restarts = 0

-----------------------------------------------------------------------------
(* Helpers *)

\* The handler of w runs its step "from" and goes on to "to".
Go(w, from, to) == /\ phase # "down"
                   /\ pc[w] = from
                   /\ pc' = [pc EXCEPT ![w] = to]

Listens(n, p) == /\ container[n] # None
                 /\ container[n].running /\ container[n].listening
                 /\ AppPort[container[n].id] = p

\* What ss -Htln reports.
ListeningPorts == others \cup {p \in Port : \E n \in Name : Listens(n, p)}

Stopped(c) == [c EXCEPT !.running = FALSE, !.listening = FALSE]

\* docker stop and docker rm; rm takes only a stopped container.
DockerStop(n) ==
    \/ container' = [container EXCEPT ![n] =
           IF @ = None THEN None ELSE Stopped(@)]
    \/ DockerMayFail /\ UNCHANGED container
DockerRm(n) ==
    \/ container' = [container EXCEPT ![n] =
           IF @ # None /\ @.running THEN @ ELSE None]
    \/ DockerMayFail /\ UNCHANGED container

-----------------------------------------------------------------------------
(* handlePromoteUpload *)

CheckApp(u) ==
    /\ Go(u, "new", IF deployedApps[AppName[u]] # None THEN "refused"
                                                       ELSE "checkBuild")
    /\ UNCHANGED <<memory, locals, dirs, host, disk, process>>

CheckBuild(u) ==
    /\ Go(u, "checkBuild", IF pendingBuilds[AppName[u]] # None THEN "refused"
                                                               ELSE "unpack")
    /\ UNCHANGED <<memory, locals, dirs, host, disk, process>>

\* The tarball is extracted, or the directory is removed again.
Unpack(u) ==
    /\ \/ Go(u, "unpack", "storeBuild") /\ dirs' = dirs \cup {u}
       \/ Go(u, "unpack", "failed") /\ UNCHANGED dirs
    /\ UNCHANGED <<memory, locals, host, disk, process>>

StoreBuild(u) ==
    /\ Go(u, "storeBuild", "snapshot")
    /\ pendingBuilds' = [pendingBuilds EXCEPT ![AppName[u]] = u]
    /\ UNCHANGED <<deployedApps, finished, locals, dirs, host, disk, process>>

SnapshotPorts(u) ==
    /\ Go(u, "snapshot", "build")
    /\ known' = [known EXCEPT ![u] = ListeningPorts]
    /\ UNCHANGED <<memory, found, target, marshalled, dirs, host, disk, process>>

SnapshotFails(u) ==
    /\ Go(u, "snapshot", "rmDir")
    /\ pendingBuilds' = [pendingBuilds EXCEPT ![AppName[u]] = None]
    /\ UNCHANGED <<deployedApps, finished, locals, dirs, host, disk, process>>

Build(u) ==
    /\ Go(u, "build", "rmStale")
    /\ UNCHANGED <<memory, locals, dirs, host, disk, process>>

\* The scanner of the build log stops at the long line, nobody reads the pipe
\* any more, and nixpacks waits for ever to write to it.
BuildHangs(u) ==
    /\ LongLines
    /\ Go(u, "build", "stuck")
    /\ UNCHANGED <<memory, locals, dirs, host, disk, process>>

\* Mutant: the failed build's directory stays.
BuildFailsKeepsDir(u) ==
    /\ Go(u, "build", "failed")
    /\ finished' = finished \cup {u}
    /\ UNCHANGED <<deployedApps, pendingBuilds, locals, dirs, host, disk, process>>

\* The build stays in pendingBuilds, finished, for the dashboard.
BuildFails(u) ==
    /\ Go(u, "build", "rmDir")
    /\ finished' = finished \cup {u}
    /\ UNCHANGED <<deployedApps, pendingBuilds, locals, dirs, host, disk, process>>

\* docker rm -f 2nnel-<name>, whoever's container that is.
RemoveStale(u) ==
    /\ Go(u, "rmStale", "run")
    /\ \/ container' = [container EXCEPT ![AppName[u]] = None]
       \/ DockerMayFail /\ UNCHANGED container
    /\ UNCHANGED <<memory, locals, dirs, others, disk, process>>

Started(u) == container' = [container EXCEPT ![AppName[u]] =
                  [id |-> u, running |-> TRUE, listening |-> FALSE]]

Run(u) ==
    /\ Go(u, "run", "detect")
    /\ container[AppName[u]] = None
    /\ Started(u)
    /\ UNCHANGED <<memory, locals, dirs, others, disk, process>>

\* Mutant: the build is not marked as finished.
RunFailsSilently(u) ==
    /\ Go(u, "run", "cleanStop")
    /\ \/ UNCHANGED container
       \/ DockerMayFail /\ container[AppName[u]] = None /\ Started(u)
    /\ UNCHANGED <<memory, locals, dirs, others, disk, process>>

\* Mutant: the handler does not return.
RunFailsGoesOn(u) ==
    /\ Go(u, "run", "detect")
    /\ finished' = finished \cup {u}
    /\ UNCHANGED container
    /\ UNCHANGED <<deployedApps, pendingBuilds, locals, dirs, others, disk, process>>

\* A name conflict, a missing image or a timeout; docker may start the
\* container all the same when it was only slow.
RunFails(u) ==
    /\ Go(u, "run", "cleanStop")
    /\ finished' = finished \cup {u}
    /\ \/ UNCHANGED container
       \/ DockerMayFail /\ container[AppName[u]] = None /\ Started(u)
    /\ UNCHANGED <<deployedApps, pendingBuilds, locals, dirs, others, disk, process>>

\* Any port that was not there before the build and accepts a connection.
Detect(u) ==
    /\ Go(u, "detect", "storeApp")
    /\ \E p \in ListeningPorts \ known[u] : found' = [found EXCEPT ![u] = p]
    /\ UNCHANGED <<memory, known, target, marshalled, dirs, host, disk, process>>

\* Mutant: the error is ignored.
DetectTimeoutIgnored(u) ==
    /\ Go(u, "detect", "storeApp")
    /\ UNCHANGED <<memory, locals, dirs, host, disk, process>>

DetectTimeout(u) ==
    /\ Go(u, "detect", "cleanStop")
    /\ finished' = finished \cup {u}
    /\ UNCHANGED <<deployedApps, pendingBuilds, locals, dirs, host, disk, process>>

\* cleanupContainer, by name.
CleanStop(u) ==
    /\ Go(u, "cleanStop", "cleanRm")
    /\ DockerStop(AppName[u])
    /\ UNCHANGED <<memory, locals, dirs, others, disk, process>>

CleanRm(u) ==
    /\ Go(u, "cleanRm", "rmDir")
    /\ DockerRm(AppName[u])
    /\ UNCHANGED <<memory, locals, dirs, others, disk, process>>

RemoveDir(u) ==
    /\ Go(u, "rmDir", "failed")
    /\ dirs' = dirs \ {u}
    /\ UNCHANGED <<memory, locals, host, disk, process>>

StoreApp(u) ==
    /\ Go(u, "storeApp", "deleteBuild")
    /\ deployedApps' = [deployedApps EXCEPT ![AppName[u]] =
                           [id |-> u, port |-> found[u]]]
    /\ UNCHANGED <<pendingBuilds, finished, locals, dirs, host, disk, process>>

\* Mutant: saveState is forgotten.
DeleteBuildUnsaved(u) ==
    /\ Go(u, "deleteBuild", "evict")
    /\ pendingBuilds' = [pendingBuilds EXCEPT ![AppName[u]] = None]
    /\ UNCHANGED <<deployedApps, finished, locals, dirs, host, disk, process>>

DeleteBuild(u) ==
    /\ Go(u, "deleteBuild", "range")
    /\ pendingBuilds' = [pendingBuilds EXCEPT ![AppName[u]] = None]
    /\ UNCHANGED <<deployedApps, finished, locals, dirs, host, disk, process>>

\* The client tunnel that used the subdomain is evicted: module Server.
Evict(u) ==
    /\ Go(u, "evict", "done")
    /\ UNCHANGED <<memory, locals, dirs, host, disk, process>>

-----------------------------------------------------------------------------
(* saveState: it walks deployedApps, truncates the file, writes it *)

SaveRange(w) ==
    /\ Go(w, "range", "truncate")
    /\ marshalled' = [marshalled EXCEPT ![w] = deployedApps]
    /\ UNCHANGED <<memory, known, found, target, dirs, host, disk, process>>

AfterSave(w) == IF w \in Upload THEN "evict" ELSE "done"

\* os.WriteFile opens the file with O_TRUNC.  When that fails the file stays as
\* it was; the error is logged and the request goes on.
SaveTruncate(w) ==
    /\ \/ Go(w, "truncate", "write") /\ disk' = Torn
       \/ StateMayFail /\ Go(w, "truncate", AfterSave(w)) /\ UNCHANGED disk
    /\ UNCHANGED <<memory, locals, dirs, host, process>>

\* Over what another save wrote since the truncation, a shorter text leaves
\* the end of the longer one behind.  A write that fails, logged as well, may
\* have written a part.
SaveWrite(w) ==
    /\ Go(w, "write", AfterSave(w))
    /\ \/ disk' = marshalled[w]
       \/ disk \notin {Torn, marshalled[w]} /\ disk' = Torn
       \/ StateMayFail /\ disk' \in {disk, Torn}
    /\ UNCHANGED <<memory, locals, dirs, host, process>>

-----------------------------------------------------------------------------
(* stopApp *)

StopLoad(x) ==
    /\ Go(x, "new", IF deployedApps[StopName[x]] = None THEN "refused" ELSE "stop")
    /\ target' = [target EXCEPT ![x] = deployedApps[StopName[x]]]
    /\ UNCHANGED <<memory, known, found, marshalled, dirs, host, disk, process>>

StopContainer(x) ==
    /\ Go(x, "stop", "rm")
    /\ DockerStop(StopName[x])
    /\ UNCHANGED <<memory, locals, dirs, others, disk, process>>

StopRm(x) ==
    /\ Go(x, "rm", "rmAppDir")
    /\ DockerRm(StopName[x])
    /\ UNCHANGED <<memory, locals, dirs, others, disk, process>>

\* docker rmi and os.RemoveAll.
StopRemoveDir(x) ==
    /\ Go(x, "rmAppDir", "delete")
    /\ dirs' = dirs \ {target[x].id}
    /\ UNCHANGED <<memory, locals, host, disk, process>>

\* Mutant: the app stays in deployedApps.
StopForgetsDelete(x) ==
    /\ Go(x, "delete", "range")
    /\ UNCHANGED <<memory, locals, dirs, host, disk, process>>

\* Whatever app is there by now.
StopDelete(x) ==
    /\ Go(x, "delete", "range")
    /\ deployedApps' = [deployedApps EXCEPT ![StopName[x]] = None]
    /\ UNCHANGED <<pendingBuilds, finished, locals, dirs, host, disk, process>>

-----------------------------------------------------------------------------
(* The dashboard and the clients *)

\* DELETE /_2nnel/builds/<name>
DismissBuild(n) ==
    /\ phase # "down"
    /\ pendingBuilds[n] # None
    /\ pendingBuilds' = [pendingBuilds EXCEPT ![n] = None]
    /\ UNCHANGED <<deployedApps, finished, pc, locals, dirs, host, disk, process>>

\* A client's PromoteError finishes the build shown under the name, be it
\* that client's or not.
PromoteError(n) ==
    /\ phase # "down"
    /\ pendingBuilds[n] # None
    /\ finished' = finished \cup {pendingBuilds[n]}
    /\ UNCHANGED <<deployedApps, pendingBuilds, pc, locals, dirs, host, disk, process>>

-----------------------------------------------------------------------------
(* The host and the process *)

Opened(c) == [c EXCEPT !.listening = TRUE]

\* The app opens its port, once it is free.
AppListens(n) ==
    /\ container[n] # None
    /\ container[n].running /\ ~container[n].listening
    /\ AppPort[container[n].id] \notin ListeningPorts
    /\ container' = [container EXCEPT ![n] = Opened(@)]
    /\ UNCHANGED <<memory, pc, locals, dirs, others, disk, process>>

OthersChange(p) ==
    /\ \/ p \in others /\ others' = others \ {p}
       \/ p \notin ListeningPorts /\ others' = others \cup {p}
    /\ UNCHANGED <<memory, pc, locals, dirs, container, disk, process>>

Crash ==
    /\ phase # "down"
    /\ restarts < MaxRestarts
    /\ phase' = "down"
    /\ UNCHANGED <<memory, pc, locals, dirs, host, disk, toStop, restarts>>

\* SIGTERM: stopAllDeployedApps before anything else.
Shutdown ==
    /\ phase = "up"
    /\ restarts < MaxRestarts
    /\ phase' = "stopping"
    /\ toStop' = {n \in Name : deployedApps[n] # None}
    /\ UNCHANGED <<memory, pc, locals, dirs, host, disk, restarts>>

ShutdownStops(n) ==
    /\ phase = "stopping"
    /\ n \in toStop
    /\ toStop' = toStop \ {n}
    /\ DockerStop(n)
    /\ UNCHANGED <<memory, pc, locals, dirs, others, disk, phase, restarts>>

\* srv.Shutdown makes Serve return, and main returns with it.
Exit ==
    /\ phase = "stopping"
    /\ toStop = {}
    /\ phase' = "down"
    /\ UNCHANGED <<memory, pc, locals, dirs, host, disk, toStop, restarts>>

\* The state file has the app and a container of its name runs.
Restored(n) == /\ disk # Torn
               /\ disk[n] # None
               /\ container[n] # None
               /\ container[n].running

\* The process starts again: loadState, before anything is served.  missed are
\* the apps whose docker inspect fails or takes more than ten seconds; all of
\* them when the file cannot be read.
RestartMissing(missed) ==
    /\ phase = "down"
    /\ phase' = "up"
    /\ restarts' = restarts + 1
    /\ deployedApps' = [n \in Name |->
           IF Restored(n) /\ n \notin missed THEN disk[n] ELSE None]
    /\ pendingBuilds' = [n \in Name |-> None]
    /\ finished' = {}
    /\ pc' = [w \in Request |-> IF pc[w] \in {"new"} \cup Ended THEN pc[w]
                                                               ELSE "dead"]
    /\ known' = [u \in Upload |-> {}]
    /\ found' = [u \in Upload |-> None]
    /\ target' = [x \in Stop |-> None]
    /\ marshalled' = [w \in Request |-> NoApps]
    /\ toStop' = {}
    /\ UNCHANGED <<dirs, host, disk>>

Restart == \E missed \in SUBSET IF StateMayFail THEN Name ELSE {} :
               RestartMissing(missed)

-----------------------------------------------------------------------------
(* The specification *)

UploadStep(u) == \/ CheckApp(u) \/ CheckBuild(u) \/ Unpack(u) \/ StoreBuild(u)
                 \/ SnapshotPorts(u) \/ SnapshotFails(u)
                 \/ Build(u) \/ BuildHangs(u) \/ BuildFails(u) \/ RemoveStale(u)
                 \/ Run(u) \/ RunFails(u) \/ Detect(u) \/ DetectTimeout(u)
                 \/ CleanStop(u) \/ CleanRm(u) \/ RemoveDir(u)
                 \/ StoreApp(u) \/ DeleteBuild(u)
SaveStep(w) == SaveRange(w) \/ SaveTruncate(w) \/ SaveWrite(w)
StopStep(x) == \/ StopLoad(x) \/ StopContainer(x) \/ StopRm(x)
               \/ StopRemoveDir(x) \/ StopDelete(x)
Dashboard == \E n \in Name : DismissBuild(n) \/ PromoteError(n)
Host == \/ \E n \in Name : AppListens(n)
        \/ \E p \in OtherPorts : OthersChange(p)
Process == \/ Crash \/ Shutdown \/ Exit \/ Restart
           \/ \E n \in Name : ShutdownStops(n)

\* Everything but the eviction, which involves the registry.
Inside == \/ \E u \in Upload : UploadStep(u)
          \/ \E w \in Request : SaveStep(w)
          \/ \E x \in Stop : StopStep(x)
          \/ Dashboard \/ Host \/ Process

Next == Inside \/ \E u \in Upload : Evict(u)

Spec == Init /\ [][Next]_vars

-----------------------------------------------------------------------------
(* Properties *)

\* The variables have their types; the one type invariant of this module.
TypeOK ==
    /\ deployedApps \in Apps
    /\ pendingBuilds \in [Name -> Upload \cup {None}]
    /\ finished \subseteq Upload
    /\ pc \in [Request -> Steps]
    /\ known \in [Upload -> SUBSET Port]
    /\ found \in [Upload -> Port \cup {None}]
    /\ target \in [Stop -> App \cup {None}]
    /\ marshalled \in [Request -> Apps]
    /\ dirs \subseteq Upload
    /\ container \in [Name -> Container \cup {None}]
    /\ others \subseteq OtherPorts
    /\ disk \in Apps \cup {Torn}
    /\ phase \in {"up", "stopping", "down"}
    /\ toStop \subseteq Name
    /\ restarts \in 0..MaxRestarts

\* A build the dashboard shows as running is being worked on: whatever path
\* an upload takes, it finishes its build or takes it off the list
\* (deploy.go:221-322), also when uploads of one name overlap, builds are
\* dismissed and clients report errors.
NoGhostBuild ==
    phase # "down" => \A n \in Name :
        pendingBuilds[n] # None /\ pendingBuilds[n] \notin finished
            => pc[pendingBuilds[n]] \in Building

\* The upload or stop request is at work.
Busy(w) == pc[w] \notin {"new"} \cup Ended

\* No other upload of u's name has passed the two checks.
Alone(u) == \A w \in Upload \ {u} : AppName[w] = AppName[u] =>
                pc[w] \in {"new", "checkBuild", "refused"}

\* Nobody interferes with what u has made: it is alone and no stop of its name
\* is at work.
Undisturbed(u) == /\ Alone(u)
                  /\ \A x \in Stop : StopName[x] = AppName[u] => ~Busy(x)

\* A served app has its own container, running, and its directory, through
\* refused uploads of its name, stops and restarts (deploy.go:145-159,
\* 312-321, 357-388).
AppBacked ==
    phase = "up" => \A n \in Name :
        deployedApps[n] # None /\ Undisturbed(deployedApps[n].id) =>
            /\ container[n] # None
            /\ container[n].id = deployedApps[n].id
            /\ container[n].running
            /\ deployedApps[n].id \in dirs

\* u is served.
ServedApp(u) == deployedApps[AppName[u]] # None /\ deployedApps[AppName[u]].id = u

\* In one life of the process no container and no directory is left behind:
\* each belongs to an upload at work or to a served app (deploy.go:207-310,
\* 357-388).
NothingLeaks ==
    phase = "up" /\ restarts = 0 => \A u \in Upload : Undisturbed(u) =>
        /\ u \in dirs => Busy(u) \/ ServedApp(u)
        /\ \A n \in Name : container[n] # None /\ container[n].id = u =>
               Busy(u) \/ ServedApp(u)

-----------------------------------------------------------------------------
(* The inductive invariant *)

\* Where an upload is once its app has been stored, and once it may have
\* started its container.
Stored == {"deleteBuild", "evict", "done", "dead"} \cup Saving
AfterRun == Stored \cup {"detect", "storeApp", "cleanStop", "cleanRm", "rmDir",
                         "failed"}
HasDir == {"storeBuild", "snapshot", "build", "stuck", "rmStale", "run", "detect",
           "storeApp", "cleanStop", "cleanRm", "rmDir"}
Stopping == {"stop", "rm", "rmAppDir", "delete"}

\* Uploads and stops have their own steps, a port is found by then, and what
\* goes down may come back.
StepsWF == /\ \A u \in Upload : /\ pc[u] \notin Stopping
                                /\ pc[u] = "storeApp" => found[u] \in Port
           /\ \A x \in Stop : pc[x] \in {"new"} \cup Stopping \cup Saving \cup Ended
           /\ phase # "up" => restarts < MaxRestarts

\* Every copy of the map has an app under its own name, and it was stored.
Fits(app, n) == app # None => AppName[app.id] = n /\ pc[app.id] \in Stored

AppsWF == /\ \A n \in Name : Fits(deployedApps[n], n)
          /\ \A w \in Request, n \in Name : Fits(marshalled[w][n], n)
          /\ disk # Torn => \A n \in Name : Fits(disk[n], n)
          /\ \A x \in Stop : /\ Fits(target[x], StopName[x])
                             /\ pc[x] \in Stopping \cup Saving => target[x] # None

ContainersWF == \A n \in Name : container[n] # None =>
                    /\ AppName[container[n].id] = n
                    /\ pc[container[n].id] \in AfterRun

BuildsWF == \A n \in Name : pendingBuilds[n] # None =>
                /\ AppName[pendingBuilds[n]] = n
                /\ pendingBuilds[n] \notin finished => pc[pendingBuilds[n]] \in Building

DirsWF == \A u \in Upload :
              /\ pc[u] \in HasDir => u \in dirs
              /\ u \in dirs => pc[u] \notin {"new", "checkBuild", "unpack", "refused",
                                           "failed"}

\* u's own container, running.
Runs(u) == LET c == container[AppName[u]] IN c # None /\ c.id = u /\ c.running

\* An upload that is alone has its container once it has started it, until a
\* stop of its name or a shutdown stops it.
AloneRuns == \A u \in Upload : Alone(u) /\ phase = "up" =>
    /\ pc[u] \in {"detect", "storeApp"} => Runs(u)
    /\ /\ deployedApps[AppName[u]] # None
       /\ \A x \in Stop : StopName[x] = AppName[u] =>
              pc[x] \notin {"rm", "rmAppDir", "delete"}
       => Runs(u)

\* The parts that hold whatever docker does ...
IInv == /\ TypeOK /\ StepsWF /\ AppsWF /\ ContainersWF /\ BuildsWF /\ DirsWF
        /\ AloneRuns

\* ... and those that hold when its commands work: what an upload or a stop
\* cleans up is gone,
CleanedUp == \A u \in Upload : LET c == container[AppName[u]] IN
    c # None /\ c.id = u =>
        /\ pc[u] \notin {"rmDir", "failed"}
        /\ pc[u] = "cleanRm" => ~c.running

StopCleansUp == \A x \in Stop : LET c == container[StopName[x]] IN
    /\ pc[x] \in {"rm", "rmAppDir", "delete"} /\ c # None /\ c.id = target[x].id =>
           pc[x] = "rm" /\ ~c.running
    /\ pc[x] = "delete" => target[x].id \notin dirs

\* a running container has its directory,
RunningHasDir == \A n \in Name : container[n] # None /\ container[n].running =>
                     container[n].id \in dirs

\* and an app that was stored is served or gone.
ServedOrGone == \A u \in Upload : LET n == AppName[u] IN
    restarts = 0 /\ Alone(u) /\ pc[u] \in Stored =>
        \/ deployedApps[n] # None
        \/ u \notin dirs /\ ~(container[n] # None /\ container[n].id = u)

DockerInv == CleanedUp /\ StopCleansUp /\ RunningHasDir /\ ServedOrGone

-----------------------------------------------------------------------------
(* What the documentation says, and the code does not do *)

\* Promoted apps survive server restarts (README.md:34), at least those that
\* nobody is working on.
PromotedAppsSurvive ==
    [][/\ phase = "down" /\ phase' = "up"
       /\ \A w \in Request : ~Busy(w)
       => \A n \in Name : deployedApps[n] # None => deployedApps'[n] # None]_vars

\* listenAddr is where the app is actually accepting connections
\* (deploy.go:33, README.md:269): an app's port is its own container's.
ListenAddrIsTheApps ==
    phase = "up" => \A n \in Name :
        deployedApps[n] # None => AppPort[deployedApps[n].id] = deployedApps[n].port
=============================================================================
