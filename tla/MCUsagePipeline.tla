--------------------------- MODULE MCUsagePipeline ---------------------------
(* Instances of UsagePipeline for TLC. *)
EXTENDS UsagePipeline, TLC

CONSTANTS c1, c2, s1, s2, w1, w2

Home(q) == [usage |-> "data", roaming |-> FALSE, quantity |-> q]
Abroad(q) == [usage |-> "data", roaming |-> TRUE, quantity |-> q]
Call(q) == [usage |-> "voice", roaming |-> FALSE, quantity |-> q]

Bodies == {c1 :> Home(2) @@ c2 :> Abroad(1), c1 :> Home(0) @@ c2 :> Call(1)}
Plans == s1 :> {"data", "data_roaming"} @@ s2 :> {"data"}
=============================================================================
