---------------------------- MODULE DeployWatch ----------------------------
(***************************************************************************)
(* Deploy, with a record of which saves of the state file went wrong, and  *)
(* what a crash at any moment leaves of the promoted apps if none did.     *)
(***************************************************************************)
EXTENDS Deploy

\* overlapped: the requests whose save was under way together with another
\* one's, be it only for a moment; saveState takes no lock.  stale: the last
\* save to end was such a one, or its text did not get into the file.
VARIABLES overlapped, stale

\* Where a request has marshalled the apps and not yet written them.
Writing == {"truncate", "write"}

Others(w) == {v \in Request \ {w} : pc[v] \in Writing}

\* This step of w begins or ends its save; the requests that so come together.
Begins(w) == pc[w] = "range" /\ pc'[w] \in Writing
Ends(w) == pc[w] \in Writing /\ pc'[w] \notin Writing
Meet(w) == IF Others(w) = {} THEN {} ELSE Others(w) \cup {w}

Restarts == phase = "down" /\ phase' = "up"

Record ==
    \/ Restarts /\ overlapped' = {} /\ stale' = FALSE
    \/ /\ ~Restarts
       /\ \/ \E w \in Request : /\ Begins(w)
                                /\ overlapped' = overlapped \cup Meet(w)
                                /\ UNCHANGED stale
          \/ \E w \in Request : /\ Ends(w)
                                /\ overlapped' = overlapped \ {w}
                                /\ stale' = (w \in overlapped \/ disk' # marshalled[w])
          \/ /\ \A w \in Request : ~Begins(w) /\ ~Ends(w)
             /\ UNCHANGED <<overlapped, stale>>

watchVars == <<vars, overlapped, stale>>

WatchInit == Init /\ overlapped = {} /\ stale = FALSE
WatchNext == Next /\ Record
WatchSpec == WatchInit /\ [][WatchNext]_watchVars

-----------------------------------------------------------------------------
(* Properties *)

\* The app's own upload has stored it and not yet got it into the file.
Unsaved == {"deleteBuild", "range", "truncate"}

\* The server dies, at any moment and whatever its requests are doing, and
\* comes back: an app whose upload had saved it is served again as it was
\* (deploy.go:99-161, 321-323, 385-386).  What is lost is named here: the apps
\* whose container was stopped, as a shutdown does, or whose docker inspect
\* failed; everything, when the crash fell between the truncation and the write
\* of a save, or the last save had failed or overlapped with another.
SurvivesCrash ==
    [][Restarts =>
         \A n \in Name :
            /\ deployedApps[n] # None /\ pc[deployedApps[n].id] \notin Unsaved
            /\ container[n] # None /\ container[n].running
            /\ ~stale /\ \A w \in Request : pc[w] # "write"
            /\ \E missed \in SUBSET (Name \ {n}) : RestartMissing(missed)
            => deployedApps'[n] = deployedApps[n]]_watchVars

-----------------------------------------------------------------------------
(* The inductive invariant *)

\* The file is as current as that, ...
FileWF ==
    ~stale /\ (\A w \in Request : pc[w] # "write") =>
        \A n \in Name :
            deployedApps[n] # None /\ pc[deployedApps[n].id] \notin Unsaved =>
                disk # Torn /\ disk[n] = deployedApps[n]

\* ... as a save that is alone writes what is served: who has stored an app
\* since then has its own save still to do.
SavesWF ==
    \A w \in Request \ overlapped : pc[w] \in Writing =>
        /\ Others(w) = {}
        /\ pc[w] = "write" => disk = Torn
        /\ \A n \in Name :
              deployedApps[n] # None
              /\ pc[deployedApps[n].id] \notin {"deleteBuild", "range"} =>
                  marshalled[w][n] = deployedApps[n]

WatchInv == FileWF /\ SavesWF
=============================================================================
