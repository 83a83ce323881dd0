----------------------------- MODULE MCPromoSaga -----------------------------
(* Instances of PromoSaga for TLC. *)
EXTENDS PromoSaga, TLC

CONSTANTS p1, k1, c1, q1, q2

Symmetric == Permutations(Request)
=============================================================================
