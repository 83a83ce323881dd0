---------------------------- MODULE MCPortalAccount ----------------------------
(* Instances of PortalAccount: addresses, customers and requests are interchangeable. *)
EXTENDS PortalAccount, TLC

CONSTANTS e1, e2, i1, i2, c1, c2, r1, r2

Symmetric ==
    Permutations(Email) \union Permutations(Identity) \union Permutations(Customer)
    \union Permutations(Request)
=============================================================================
