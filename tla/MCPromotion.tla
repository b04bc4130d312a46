---------------------------- MODULE MCPromotion ----------------------------
(***************************************************************************)
(* An instance of Promotion for TLC: two promotions of one name.           *)
(***************************************************************************)
EXTENDS Promotion, TLC

CONSTANTS a, u1, u2

OneName == u1 :> a @@ u2 :> a
OnePort == u1 :> 3000 @@ u2 :> 3000
=============================================================================
