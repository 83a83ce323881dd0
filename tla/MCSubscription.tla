---------------------------- MODULE MCSubscription ----------------------------
(* Instances of Subscription for TLC. *)
EXTENDS Subscription, TLC

CONSTANTS w1, w2, r1, r2, p1, p2

TwoPlans == p1 :> 2 @@ p2 :> 1
=============================================================================
