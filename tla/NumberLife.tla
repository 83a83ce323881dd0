----------------------------- MODULE NumberLife ------------------------------
(***************************************************************************)
(* What the number pool promises to those who hold numbers and to those who *)
(* have a line on one, with no page, request, row or sweep batch in sight:  *)
(* a number is free, held until some time, or a line's, and one of these    *)
(* only; a hold is taken over by another hold only after its time, and by a *)
(* line at any time; nobody takes the number of a line while it lasts.  The *)
(* number of a line that ended may be lost: nobody's, and not free either.  *)
(***************************************************************************)
EXTENDS Integers

CONSTANTS Number, OpenOrder, Order, None, Ttl

VARIABLES
    free,    \* the numbers that anybody may have
    hold,    \* for which open order a number is held, and until when
    line,    \* the number of each order's line
    clock

vars == <<free, hold, line, clock>>

NoHold == [by |-> None, until |-> 0]
IsHeld(n) == hold[n] # NoHold

Init ==
    /\ free = Number
    /\ hold = [n \in Number |-> NoHold]
    /\ line = [o \in Order |-> None]
    /\ clock = 1

TakeHold(n, oo) ==
    /\ n \in free \/ hold[n].by = oo \/ (IsHeld(n) /\ hold[n].until < clock)
    /\ free' = free \ {n}
    /\ hold' = [hold EXCEPT ![n] = [by |-> oo, until |-> clock + Ttl]]
    /\ UNCHANGED <<line, clock>>

GiveBack(held) ==
    /\ held # {}
    /\ free' = free \union held
    /\ hold' = [n \in Number |-> IF n \in held THEN NoHold ELSE hold[n]]
    /\ UNCHANGED <<line, clock>>

Cancel(oo) == GiveBack({n \in Number : IsHeld(n) /\ hold[n].by = oo})

(* Nobody is told of the end of a hold, so nothing says which are found at once. *)
Lapse == \E held \in SUBSET {n \in Number : IsHeld(n) /\ hold[n].until <= clock} : GiveBack(held)

StartLine(n, o) ==
    /\ n \in free \/ IsHeld(n)
    /\ line[o] = None
    /\ free' = free \ {n}
    /\ hold' = [hold EXCEPT ![n] = NoHold]
    /\ line' = [line EXCEPT ![o] = n]
    /\ UNCHANGED clock

EndLine(o) ==
    /\ line[o] # None
    /\ free' = free \union {line[o]} \/ UNCHANGED free
    /\ line' = [line EXCEPT ![o] = None]
    /\ UNCHANGED <<hold, clock>>

(* The one who lost a number may still give it back. *)
Recover(n) ==
    /\ ~ IsHeld(n)
    /\ \A o \in Order : line[o] # n
    /\ free' = free \union {n}
    /\ UNCHANGED <<hold, line, clock>>

Tick == clock' = clock + 1 /\ UNCHANGED <<free, hold, line>>

Next ==
    \/ \E n \in Number, oo \in OpenOrder : TakeHold(n, oo)
    \/ \E oo \in OpenOrder : Cancel(oo)
    \/ Lapse
    \/ \E n \in Number, o \in Order : StartLine(n, o)
    \/ \E o \in Order : EndLine(o)
    \/ \E n \in Number : Recover(n)
    \/ Tick
=============================================================================
