----------------------------- MODULE Promotion -----------------------------
(***************************************************************************)
(* A promotion from click to report: the dashboard asks the client         *)
(* (handlePromoteTrigger), the client packs its project and posts it       *)
(* (internal/client/promote.go), the server builds and runs it (Deploy),   *)
(* and the client reports a failure to the dashboard, which shows it with  *)
(* the build that has the name (control.go:131-138).                       *)
(*                                                                         *)
(* Post and report take different ways: the client's HTTP request, which   *)
(* is given up after ten minutes while the server works on, and the        *)
(* control stream.  One life of the server process.                        *)
(***************************************************************************)
EXTENDS Naturals

CONSTANTS Name, Upload, AppName, AppPort, Port, OtherPorts, DockerMayFail,
          StateMayFail, LongLines, None, Torn

VARIABLES deployedApps, pendingBuilds, finished, job, known, found, target,
          marshalled, dirs, container, others, disk, phase, toStop, restarts,
          stage  \* where the client is with each promotion

deployState == <<deployedApps, pendingBuilds, finished, job, known, found,
                 target, marshalled, dirs, container, others, disk, phase,
                 toStop, restarts>>
vars == <<deployState, stage>>

D == INSTANCE Deploy WITH pc <- job, Stop <- {}, StopName <- <<>>, MaxRestarts <- 0

ASSUME DeployAssumption == /\ D!AppAssumption /\ D!DisjointAssumption
                           /\ D!MarkAssumption

Init == D!Init /\ stage = [u \in Upload |-> "idle"]

\* The client's handling of u goes on from one stage to another.
Moves(u, from, to) == stage[u] = from /\ stage' = [stage EXCEPT ![u] = to]

-----------------------------------------------------------------------------
(* The client *)

\* A click, and the client's answer to the message.
Trigger(u) == Moves(u, "idle", "asked") /\ UNCHANGED deployState

\* No directory is configured, or it cannot be packed.
NoTarball(u) == Moves(u, "asked", "error") /\ UNCHANGED deployState

Post(u) == Moves(u, "asked", "posting") /\ UNCHANGED deployState

\* The server is not reached.
PostFails(u) ==
    /\ job[u] = "new"
    /\ Moves(u, "posting", "error")
    /\ UNCHANGED deployState

Answered(u) ==
    /\ \/ job[u] \in {"refused", "failed"} /\ Moves(u, "posting", "error")
       \/ job[u] = "done" /\ Moves(u, "posting", "ok")
    /\ UNCHANGED deployState

\* Mutant: the client waits as long as it takes.
NeverGivesUp(u) == FALSE /\ UNCHANGED vars

\* Ten minutes are over.  The server does not look at the request's context.
GivesUp(u) ==
    /\ job[u] \notin {"new"} \cup D!Ended
    /\ Moves(u, "posting", "error")
    /\ UNCHANGED deployState

\* The report arrives.  It names the tunnel, not the build: it ends whatever
\* build is shown under the name, and is dropped if there is none.
Report(u) ==
    LET shown == pendingBuilds[AppName[u]]
    IN  /\ Moves(u, "error", IF shown = u THEN "told" ELSE "missed")
        /\ IF shown = None THEN UNCHANGED deployState ELSE D!PromoteError(AppName[u])

\* The control connection is gone.
ReportLost(u) == Moves(u, "error", "lost") /\ UNCHANGED deployState

-----------------------------------------------------------------------------
(* The specification *)

Client(u) == \/ NoTarball(u) \/ Post(u) \/ PostFails(u) \/ Answered(u)
             \/ GivesUp(u) \/ Report(u) \/ ReportLost(u)

\* An upload arrives while its client is posting.
ServerStep(u) == /\ job[u] = "new" => stage[u] = "posting"
                 /\ D!UploadStep(u) \/ D!SaveStep(u) \/ D!Evict(u)
                 /\ UNCHANGED stage

Elsewhere == /\ (\E n \in Name : D!DismissBuild(n)) \/ D!Host
             /\ UNCHANGED stage

Next == \/ \E u \in Upload : Trigger(u) \/ Client(u) \/ ServerStep(u)
        \/ Elsewhere

Spec == Init /\ [][Next]_vars

\* The handlers go on and so do the clients, whose posts time out; commands
\* end, except for a build that hangs.
FairSpec == /\ Spec
            /\ \A u \in Upload : WF_vars(Client(u)) /\ WF_vars(ServerStep(u))

-----------------------------------------------------------------------------
(* Properties *)

\* u is shown as failed although it is being worked on.
FalseAlarm(u) == /\ pendingBuilds[AppName[u]] = u /\ u \in finished
                 /\ job[u] \in D!Building

\* An error on a build means that it failed (deploy.go:48).  There are two
\* exceptions and no third: its client gave up waiting, or the report of
\* another promotion of the name hit it.
Explained(u) ==
    \/ stage[u] = "told"
    \/ \E w \in Upload \ {u} : AppName[w] = AppName[u] /\ stage[w] = "missed"
AlarmsExplained == \A u \in Upload : FalseAlarm(u) => Explained(u)

\* Why: builds are shown under their names, so that a report hits one of its
\* own name, and an upload that ends a build itself has stopped working on it
\* before.
CleaningUp == {"cleanStop", "cleanRm", "rmDir", "failed"}
AlarmsInv ==
    /\ job \in [Upload -> D!Steps]
    /\ stage \in [Upload -> {"idle", "asked", "posting", "ok", "error", "told",
                             "missed", "lost"}]
    /\ pendingBuilds \in [Name -> Upload \cup {None}]
    /\ finished \subseteq Upload
    /\ \A n \in Name : pendingBuilds[n] # None => AppName[pendingBuilds[n]] = n
    /\ \A u \in finished : job[u] \in CleaningUp \/ Explained(u)

\* A build that is shown as running ends, is dismissed or replaced, however
\* promotions of one name overlap (deploy.go:59-62, 221-322).  A build that
\* hangs ends by its client's report, unless that is lost or came before the
\* build was shown.
BuildsEnd ==
    \A n \in Name, u \in Upload :
        pendingBuilds[n] = u /\ u \notin finished
            ~> \/ pendingBuilds[n] # u \/ u \in finished
               \/ job[u] = "stuck" /\ stage[u] \in {"missed", "lost"}
=============================================================================
