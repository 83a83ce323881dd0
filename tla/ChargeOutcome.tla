---------------------------- MODULE ChargeOutcome ----------------------------
(***************************************************************************)
(* What the payment service promises to those who charge and to those who   *)
(* listen, with no request, transaction, adapter or webhook in sight: one   *)
(* attempt is one charge, its end is final, its row is written once and     *)
(* never says more than the provider did, and the domain is told of each    *)
(* of the provider's events at most once, only of what happened, and of an  *)
(* end only when the row did not already say so.  A failed end is two       *)
(* events, the charge's and the intent's, and the domain may hear of both.  *)
(***************************************************************************)

CONSTANTS Attempt, Kind

VARIABLES
    money,   \* what the provider has made of each attempt
    row,     \* what payment says of it
    told     \* the provider's events that the domain has heard of

vars == <<money, row, told>>

Failing == {"charge.failed", "payment_intent.payment_failed"}
Ending == {"charge.succeeded"} \union Failing
Event == Attempt \X Kind

Init ==
    /\ money = [a \in Attempt |-> "none"]
    /\ row = [a \in Attempt |-> "none"]
    /\ told = {}

Try(a) ==
    /\ money[a] = "none"
    /\ \E answer \in {"processing", "succeeded", "failed"} : money' = [money EXCEPT ![a] = answer]
    /\ UNCHANGED <<row, told>>

Conclude(a) ==
    /\ money[a] = "processing"
    /\ \E end \in {"succeeded", "failed"} : money' = [money EXCEPT ![a] = end]
    /\ UNCHANGED <<row, told>>

(* A row that is no verdict is written when the provider had none to give. *)
Write(a) ==
    /\ row[a] = "none" /\ money[a] # "none"
    /\ \E status \in {"approved", "declined", "errored"} :
        /\ status = "approved" => money[a] = "succeeded"
        /\ status = "declined" => money[a] = "failed"
        /\ row' = [row EXCEPT ![a] = status]
    /\ UNCHANGED <<money, told>>

Tell(e) ==
    /\ e \notin told
    /\ money[e[1]] = (IF e[2] \in Failing THEN "failed" ELSE "succeeded")
    /\ e[2] \in Ending => row[e[1]] = "errored"
    /\ told' = told \union {e}
    /\ UNCHANGED <<money, row>>

Next ==
    \/ \E a \in Attempt : Try(a) \/ Conclude(a) \/ Write(a)
    \/ \E e \in Event : Tell(e)

Spec == Init /\ [][Next]_vars
=============================================================================
