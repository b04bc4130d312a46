------------------------------ MODULE MCRelay ------------------------------
(***************************************************************************)
(* An instance of Relay for TLC: two pieces each way over HTTP, two in one *)
(* direction of the other kinds.                                           *)
(***************************************************************************)
EXTENDS Relay

MCPieces == [tcp |-> [up |-> 2, down |-> 1],
             ws |-> [up |-> 2, down |-> 1],
             http |-> [up |-> 2, down |-> 2]]
=============================================================================
