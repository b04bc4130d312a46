-------------------------- MODULE PromotionProofs --------------------------
(***************************************************************************)
(* Proofs about Promotion, for any number of names and overlapping         *)
(* promotions.                                                             *)
(***************************************************************************)
EXTENDS Promotion, TLAPS

(* What the client does leaves the server alone, but for its report, and    *)
(* no report is taken back.                                                *)
LEMMA ClientMoves ==
    ASSUME AlarmsInv, NEW u \in Upload, Trigger(u) \/ Client(u)
    PROVE  /\ stage' \in [Upload -> {"idle", "asked", "posting", "ok", "error", "told",
                                     "missed", "lost"}]
           /\ \A w \in Upload : stage[w] \in {"told", "missed"} => stage'[w] = stage[w]
           /\ UNCHANGED deployState \/ Report(u)
  BY DEF AlarmsInv, Trigger, Client, NoTarball, Post, PostFails, Answered, GivesUp,
         Report, ReportLost, Moves

(* What has been explained stays so. *)
LEMMA StaysExplained ==
    ASSUME NEW u \in Upload, Explained(u),
           \A w \in Upload : stage[w] \in {"told", "missed"} => stage'[w] = stage[w]
    PROVE  Explained(u)'
  BY DEF Explained

(* A report ends a build of its own name: its own, or another one's.        *)
LEMMA ReportStep ==
    ASSUME AlarmsInv, NEW u \in Upload, Report(u)
    PROVE  AlarmsInv'
  <1> DEFINE shown == pendingBuilds[AppName[u]]
  <1>1. AppName[u] \in Name
    BY DeployAssumption DEF D!AppAssumption
  <1>2. /\ stage' \in [Upload -> {"idle", "asked", "posting", "ok", "error", "told",
                                  "missed", "lost"}]
        /\ \A w \in Upload : stage[w] \in {"told", "missed"} => stage'[w] = stage[w]
    BY ClientMoves DEF Client
  <1>3. /\ UNCHANGED <<job, pendingBuilds>>
        /\ finished' = IF shown = None THEN finished ELSE finished \cup {shown}
    BY DEF Report, D!PromoteError, deployState, D!locals
  <1>4. shown # None => shown \in Upload /\ AppName[shown] = AppName[u]
    BY <1>1 DEF AlarmsInv
  <1>5. stage'[u] = IF shown = u THEN "told" ELSE "missed"
    BY DEF Report, Moves, AlarmsInv
  <1>6. ASSUME NEW w \in Upload, w = shown, shown # None PROVE Explained(w)'
    BY <1>4, <1>5, <1>6 DEF Explained
  <1>7. ASSUME NEW w \in finished' PROVE job'[w] \in CleaningUp \/ Explained(w)'
    <2>1. CASE w \in finished
      BY <1>2, <1>3, <2>1, StaysExplained DEF AlarmsInv
    <2>2. CASE w \notin finished
      BY <1>3, <1>4, <1>6, <2>2
    <2> QED
      BY <2>1, <2>2
  <1>8. finished' \subseteq Upload
    BY <1>3, <1>4 DEF AlarmsInv
  <1> QED
    BY <1>2, <1>3, <1>7, <1>8 DEF AlarmsInv

(* The server at work on an upload: it ends a build only when it turns to   *)
(* cleaning up after it.                                                   *)
LEMMA ServerMoves ==
    ASSUME AlarmsInv, NEW u \in Upload, ServerStep(u)
    PROVE  /\ UNCHANGED stage
           /\ \E to \in D!Steps :
                /\ job' = [job EXCEPT ![u] = to]
                /\ job[u] \in CleaningUp => to \in CleaningUp
                /\ \/ finished' = finished
                   \/ finished' = finished \cup {u} /\ to \in CleaningUp
           /\ \/ UNCHANGED pendingBuilds
              \/ pendingBuilds' = [pendingBuilds EXCEPT ![AppName[u]] = u]
              \/ pendingBuilds' = [pendingBuilds EXCEPT ![AppName[u]] = None]
  <1> USE DEF D!Go, D!Steps, D!Building, D!Saving, D!Ended, CleaningUp, D!memory, D!locals
  <1>1. UNCHANGED stage
    BY DEF ServerStep
  <1>2. CASE D!SaveStep(u)
    BY <1>1, <1>2 DEF D!SaveStep, D!SaveRange, D!SaveTruncate, D!SaveWrite, D!AfterSave
  <1>3. CASE D!UploadStep(u) \/ D!Evict(u)
    BY <1>1, <1>3 DEF D!UploadStep,
       D!CheckApp, D!CheckBuild, D!Unpack, D!StoreBuild, D!SnapshotPorts,
       D!SnapshotFails, D!Build, D!BuildHangs, D!BuildFails, D!RemoveStale, D!Run,
       D!RunFails, D!Detect, D!DetectTimeout, D!CleanStop, D!CleanRm, D!RemoveDir,
       D!StoreApp, D!DeleteBuild, D!Evict
  <1> QED
    BY <1>2, <1>3 DEF ServerStep

LEMMA AlarmsNext == AlarmsInv /\ [Next]_vars => AlarmsInv'
  <1> SUFFICES ASSUME AlarmsInv, [Next]_vars PROVE AlarmsInv'
    OBVIOUS
  <1>0. \A u \in Upload : AppName[u] \in Name
    BY DeployAssumption DEF D!AppAssumption
  <1>1. ASSUME NEW u \in Upload, Trigger(u) \/ Client(u) PROVE AlarmsInv'
    <2>1. CASE UNCHANGED deployState
      <3>1. \A w \in finished : job[w] \in CleaningUp \/ Explained(w)'
        BY <1>1, ClientMoves, StaysExplained DEF AlarmsInv
      <3> QED
        BY <1>1, <2>1, <3>1, ClientMoves DEF AlarmsInv, deployState
    <2> QED
      BY <1>1, <2>1, ClientMoves, ReportStep
  <1>2. ASSUME NEW u \in Upload, ServerStep(u) PROVE AlarmsInv'
    <2>1. PICK to \in D!Steps :
            /\ job' = [job EXCEPT ![u] = to]
            /\ job[u] \in CleaningUp => to \in CleaningUp
            /\ \/ finished' = finished
               \/ finished' = finished \cup {u} /\ to \in CleaningUp
      BY <1>2, ServerMoves
    <2>2. \/ UNCHANGED pendingBuilds
          \/ pendingBuilds' = [pendingBuilds EXCEPT ![AppName[u]] = u]
          \/ pendingBuilds' = [pendingBuilds EXCEPT ![AppName[u]] = None]
      BY <1>2, ServerMoves
    <2>3. /\ pendingBuilds' \in [Name -> Upload \cup {None}]
          /\ \A n \in Name : pendingBuilds'[n] # None => AppName[pendingBuilds'[n]] = n
      BY <1>0, <2>2 DEF AlarmsInv
    <2>4. \A w \in Upload : Explained(w) => Explained(w)'
      BY <1>2, ServerMoves DEF Explained
    <2>5. \A w \in finished' : job'[w] \in CleaningUp \/ Explained(w)'
      BY <2>1, <2>4 DEF AlarmsInv
    <2>6. UNCHANGED stage
      BY <1>2, ServerMoves
    <2> QED
      BY <2>1, <2>3, <2>5, <2>6 DEF AlarmsInv
  <1>3. CASE Elsewhere
    <2>1. /\ UNCHANGED <<stage, job, finished>>
          /\ \/ UNCHANGED pendingBuilds
             \/ \E n \in Name : pendingBuilds' = [pendingBuilds EXCEPT ![n] = None]
      BY <1>3 DEF Elsewhere, D!DismissBuild, D!Host, D!AppListens, D!OthersChange,
                  D!memory, D!locals
    <2>2. /\ pendingBuilds' \in [Name -> Upload \cup {None}]
          /\ \A n \in Name : pendingBuilds'[n] # None => AppName[pendingBuilds'[n]] = n
      BY <2>1 DEF AlarmsInv
    <2> QED
      BY <2>1, <2>2 DEF AlarmsInv, Explained
  <1>4. CASE UNCHANGED vars
    BY <1>4 DEF vars, deployState, AlarmsInv, Explained
  <1> QED
    BY <1>1, <1>2, <1>3, <1>4 DEF Next

(* A build that is shown as failed while it is being worked on is so by a   *)
(* client's report: its own, or that of another promotion of the same name *)
(* (control.go:131-138), and never by the server's own doing.              *)
THEOREM AlarmsAreExplained == Spec => []AlarmsExplained
  <1>1. Init => AlarmsInv
    BY DEF Init, D!Init, D!Request, D!Steps, AlarmsInv
  <1>2. AlarmsInv => AlarmsExplained
    BY DEF AlarmsInv, AlarmsExplained, FalseAlarm, CleaningUp, D!Building
  <1> QED
    BY <1>1, <1>2, AlarmsNext, PTL DEF Spec
=============================================================================
