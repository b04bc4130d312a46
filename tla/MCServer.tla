------------------------------ MODULE MCServer ------------------------------
(***************************************************************************)
(* Instances of Server and ServerWatch for TLC.                            *)
(***************************************************************************)
EXTENDS ServerWatch, TLC

CONSTANTS s1, s2, a, b, u1, v1

Http(n, sub) == [name |-> n, type |-> "http", subdomain |-> sub, port |-> 0]

\* The tunnel has the app's name, or only its subdomain.
SameName == s1 :> {Http(a, None)} @@ s2 :> {Http(a, None)}
OtherName == s1 :> {Http(b, a)}
PromoteA == u1 :> a
OnPort == u1 :> 3000
NoStop == [x \in {} |-> a]
=============================================================================
