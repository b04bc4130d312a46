----------------------------- MODULE MCSession -----------------------------
(***************************************************************************)
(* Instances of Session and SessionWatch for TLC.                          *)
(***************************************************************************)
EXTENDS SessionWatch

CONSTANTS a, b, d1

TwoTunnels == <<a, b>>
OneTunnel == <<a>>
OneDir == [n \in Name |-> IF n = a THEN d1 ELSE None]

\* WatchSpec under the fairness of Session's FairSpec.
MCSpec == /\ WatchSpec
          /\ WF_vars(Client)
          /\ \A k \in Sessions : WF_vars(Server(k))
=============================================================================
