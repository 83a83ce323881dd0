-------------------------- MODULE MCOrderFulfilment --------------------------
EXTENDS OrderFulfilment, TLC

(* Orders, requests, tasks, numbers and eSIMs are each interchangeable. *)
CONSTANTS o1, o2, c1, c2, t1, t2, n1, n2, s1, s2

Symmetric ==
    Permutations(Order) \union Permutations(Caller) \union Permutations(Task)
        \union Permutations(Number) \union Permutations(Sim)
=============================================================================
