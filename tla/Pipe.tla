-------------------------------- MODULE Pipe --------------------------------
(***************************************************************************)
(* What one direction of a relayed connection promises its receiver: what  *)
(* was sent, in order, nothing twice and nothing left out in between, up   *)
(* to some point where it ends; or, instead, a refusal.  The i-th piece of *)
(* data is i.                                                              *)
(***************************************************************************)
EXTENDS Naturals, Sequences

CONSTANT Refusal  \* the answer of the relay itself, HTTP status 502

VARIABLES sent,  \* how many pieces the source has sent
          got,   \* what the destination has received
          over   \* the destination has seen the end

pipeVars == <<sent, got, over>>

Init == sent \in Nat /\ got = <<>> /\ over = FALSE

Send == sent' = sent + 1 /\ UNCHANGED <<got, over>>

Deliver == /\ ~over
           /\ got # <<Refusal>>
           /\ Len(got) < sent
           /\ got' = Append(got, Len(got) + 1)
           /\ UNCHANGED <<sent, over>>

Refuse == ~over /\ got = <<>> /\ got' = <<Refusal>> /\ UNCHANGED <<sent, over>>

End == ~over /\ over' = TRUE /\ UNCHANGED <<sent, got>>

Next == Send \/ Deliver \/ Refuse \/ End

Spec == Init /\ [][Next]_pipeVars
=============================================================================
