------------------------------ MODULE MCPayment ------------------------------
(* Instances of Payment for TLC. *)
EXTENDS Payment, TLC

CONSTANTS r1, r2, d1, d2

Symmetric == Permutations(Request) \union Permutations(Delivery)
=============================================================================
