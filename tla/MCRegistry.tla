----------------------------- MODULE MCRegistry -----------------------------
(***************************************************************************)
(* Instances of Registry for TLC.                                          *)
(***************************************************************************)
EXTENDS Registry, TLC

CONSTANTS s1, s2, a, b, v1

Http(n, sub) == [name |-> n, type |-> "http", subdomain |-> sub, port |-> 0]
Tcp(n, p) == [name |-> n, type |-> "tcp", subdomain |-> None, port |-> p]
Bad(n) == [name |-> n, type |-> "unknown", subdomain |-> None, port |-> 0]

MCSession == {s1, s2}
MCName == {a, b}
OneName == {a}
OnePort == {1}
TwoPorts == {1, 2}

\* Everybody may ask for everything: the subdomain, a fixed port, an
\* automatic port, all under one tunnel name.
Ports12 == [s \in MCSession |-> {Http(a, None), Tcp(a, 1), Tcp(a, 0)}]

\* The first client has a subdomain of its own, under two tunnel names, and
\* contends for the other.
Subdomains12 == s1 :> {Http(a, None), Http(b, None), Http(a, b), Bad(a)} @@
                s2 :> {Http(a, None), Http(b, a)}
ContendedHttp == [s \in MCSession |-> {Http(a, None), Http(b, a)}]
=============================================================================
