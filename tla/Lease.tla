------------------------------- MODULE Lease -------------------------------
(***************************************************************************)
(* What the server promises about a public TCP port, and nothing about how *)
(* it keeps the promise: a port is leased to at most one session, nobody   *)
(* else takes it over while it is leased, and only its holder gives it     *)
(* back.  After the registry has been shut down nothing is promised.       *)
(***************************************************************************)
CONSTANTS Session, Port, None

VARIABLES owner,  \* the session that holds each port, None when it is free
          ended   \* the registry has been shut down

leaseVars == <<owner, ended>>

Init == /\ owner = [p \in Port |-> None]
        /\ ended = FALSE

Acquire(s, p) == /\ ~ended
                 /\ owner[p] = None
                 /\ owner' = [owner EXCEPT ![p] = s]
                 /\ UNCHANGED ended

\* A session gives back some of the ports it holds, all of them when it ends.
Release(s, P) == /\ ~ended
                 /\ \A p \in P : owner[p] = s
                 /\ owner' = [p \in Port |-> IF p \in P THEN None ELSE owner[p]]
                 /\ UNCHANGED ended

End == /\ ~ended
       /\ ended' = TRUE
       /\ UNCHANGED owner

AfterEnd == ended /\ ended'

Next == \/ \E s \in Session, p \in Port : Acquire(s, p)
        \/ \E s \in Session, P \in SUBSET Port : Release(s, P)
        \/ End
        \/ AfterEnd

Spec == Init /\ [][Next]_leaseVars
=============================================================================
