------------------------------ MODULE MCDeploy ------------------------------
(***************************************************************************)
(* Instances of DeployWatch for TLC.                                       *)
(***************************************************************************)
EXTENDS DeployWatch, TLC

CONSTANTS a, b, u1, u2, x1

\* Two projects under two names, and two attempts at one name.
TwoNames == u1 :> a @@ u2 :> b
OneName == u1 :> a @@ u2 :> a
OnlyOne == u1 :> a
StopsA == x1 :> a
NoStop == [x \in {} |-> a]

OwnPorts == u1 :> 3000 @@ u2 :> 4000
OnePort == u1 :> 3000
=============================================================================
