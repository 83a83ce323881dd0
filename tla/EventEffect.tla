----------------------------- MODULE EventEffect -----------------------------
(***************************************************************************)
(* What the event plane promises to the service that stages an event and   *)
(* to the service that consumes it, with no relay, broker, queue or worker *)
(* in sight: a committed event takes effect at most once at its consumer,  *)
(* never before it was committed, and is in the end either in effect or    *)
(* parked for an operator.                                                 *)
(***************************************************************************)
EXTENDS Naturals

CONSTANT Event

VARIABLES
    staged,    \* events whose domain transaction committed
    effect,    \* how many times the consumer's writes for an event committed
    parked     \* events an operator finds in the parked queue

vars == <<staged, effect, parked>>

Init ==
    /\ staged = {}
    /\ effect = [e \in Event |-> 0]
    /\ parked = {}

Stage(e) ==
    /\ e \notin staged
    /\ staged' = staged \union {e}
    /\ UNCHANGED <<effect, parked>>

Apply(e) ==
    /\ e \in staged
    /\ effect[e] = 0
    /\ effect' = [effect EXCEPT ![e] = 1]
    /\ UNCHANGED <<staged, parked>>

(* A copy of an event may be parked although another copy took effect. *)
Park(e) ==
    /\ e \in staged
    /\ parked' = parked \union {e}
    /\ UNCHANGED <<staged, effect>>

Settle(e) == effect[e] = 0 /\ e \notin parked /\ (Apply(e) \/ Park(e))

Next == \E e \in Event : Stage(e) \/ Apply(e) \/ Park(e)

Safety == Init /\ [][Next]_vars

Spec == Safety /\ \A e \in Event : WF_vars(Settle(e))
=============================================================================
