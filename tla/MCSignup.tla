------------------------------ MODULE MCSignup -------------------------------
(* Instances of Signup for TLC. *)
EXTENDS Signup, TLC

CONSTANTS a, b, n1, r1, r2

Symmetric == Permutations(Owner) \union Permutations(Request)
=============================================================================
