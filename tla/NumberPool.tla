----------------------------- MODULE NumberPool ------------------------------
(***************************************************************************)
(* The number pool and the open orders of services/crm: the soft hold taken *)
(* when a customer picks a number, its promotion to a hard reservation by   *)
(* provisioning, and the sweep of the holds whose window has passed.        *)
(*                                                                         *)
(* Each operator that writes gives the new value of the rows; the module   *)
(* that uses it makes one transaction of it.  The clock is bss_clock.       *)
(***************************************************************************)
EXTENDS Integers

CONSTANTS
    Owner,        \* verified e-mail addresses
    Number,
    OpenOrder,    \* ids of open orders: numbers, handed out in order
    None,
    Ttl,          \* how long a hold lasts
    MaxTime       \* bound: the clock

ASSUME PoolAssumption ==
    /\ OpenOrder \subseteq Nat \ {0}
    /\ None \notin Owner \union Number \union Nat
    /\ Ttl \in Nat \ {0}
    /\ MaxTime \in Nat \ {0}

VARIABLES
    numbers,      \* inventory.msisdn_pool: [status, until, for]; until = 0 is NULL
    openOrders,   \* inventory.open_order: [status, owner, number, until]
    clock

pool == <<numbers, openOrders, clock>>

Time == 0 .. MaxTime + Ttl
Free == [status |-> "available", until |-> 0, for |-> None]
Unused == [status |-> "none", owner |-> None, number |-> None, until |-> 0]

PoolTypeOK ==
    /\ numbers \in [Number -> [status : {"available", "reserved", "assigned"},
                               until : Time, for : OpenOrder \union {None}]]
    /\ openOrders \in
        [OpenOrder -> [status : {"none", "open", "completed", "cancelled", "expired"},
                       owner : Owner \union {None}, number : Number \union {None}, until : Time]]
    /\ clock \in 1 .. MaxTime

PoolInit ==
    /\ numbers = [n \in Number |-> Free]
    /\ openOrders = [oo \in OpenOrder |-> Unused]
    /\ clock = 1

IsNext(id, unused) == id \in unused /\ \A i \in unused : id <= i

(* Soft: held for an open order, not committed to provisioning. *)
Soft(n) == numbers[n].status = "reserved" /\ numbers[n].until # 0

-----------------------------------------------------------------------------
(* repo.rs: the rows a statement finds and what it writes *)

Holdable(n, oo) ==
    \/ numbers[n].status = "available"
    \/ numbers[n].for = oo
    \/ Soft(n) /\ numbers[n].until < clock

Held(n, oo) ==
    IF Holdable(n, oo)
    THEN [numbers EXCEPT ![n] = [status |-> "reserved", until |-> clock + Ttl, for |-> oo]]
    ELSE numbers

Released(rows, oos) ==
    [n \in Number |->
        IF rows[n].for \in oos /\ rows[n].status = "reserved" /\ rows[n].until # 0
        THEN Free ELSE rows[n]]

OpenOf(owner) == {oo \in OpenOrder : openOrders[oo].status = "open" /\ openOrders[oo].owner = owner}

Expired ==
    {oo \in OpenOrder : openOrders[oo].status = "open" /\ openOrders[oo].until <= clock}

-----------------------------------------------------------------------------
(* create_or_resume_open_order: the open order oo of the answer, or a policy *)

(* The answer of hold_msisdn is not looked at: the number may be somebody else's. *)
Resume(owner, n, oo) ==
    /\ oo \in OpenOf(owner)
    /\ openOrders[oo].number = n
    /\ numbers' = Held(n, oo)
    /\ openOrders' = [openOrders EXCEPT ![oo].until = clock + Ttl]

Open(owner, n, oo) ==
    /\ OpenOf(owner) = {}
    /\ IsNext(oo, {p \in OpenOrder : openOrders[p].status = "none"})
    /\ Holdable(n, oo)
    /\ numbers' = Held(n, oo)
    /\ openOrders' = [openOrders EXCEPT ![oo] =
                        [status |-> "open", owner |-> owner, number |-> n, until |-> clock + Ttl]]

(* open_order.already_open, or inventory.msisdn.unavailable and a rollback *)
OpenRefused(owner, n) ==
    \/ \E oo \in OpenOf(owner) : openOrders[oo].number # n
    \/ /\ OpenOf(owner) = {}
       /\ numbers[n].status # "available"
       /\ ~ (Soft(n) /\ numbers[n].until < clock)

-----------------------------------------------------------------------------
(* The other transactions *)

(* set_open_order_state.  Nothing reads the window of a row that is not open. *)
Closed(oos, status) ==
    [oo \in OpenOrder |->
        IF oo \in oos THEN [openOrders[oo] EXCEPT !.status = status, !.until = 0]
                      ELSE openOrders[oo]]

CompleteOpenOrder(oo) ==
    /\ openOrders' = Closed({oo}, "completed")
    /\ UNCHANGED numbers

HoldsOf(oo) == {n \in Number : Soft(n) /\ numbers[n].for = oo}

(* Mutant: the status is set and the hold forgotten. *)
CancelOpenOrder_KeepHold(oo) ==
    /\ HoldsOf(oo) # {}
    /\ openOrders' = Closed({oo}, "cancelled")
    /\ UNCHANGED numbers

(* The hold released in the first statement stays locked until the second has set the *)
(* status: create_or_resume_open_order comes before or after both.                    *)
CancelOpenOrder(oo) ==
    /\ HoldsOf(oo) # {}
    /\ numbers' = Released(numbers, {oo})
    /\ openOrders' = Closed({oo}, "cancelled")

(* The first statement found no hold and locked nothing; the second sets the status of *)
(* whatever the open order has become in between.                                      *)
CancelUnheld(oo) ==
    /\ openOrders' = Closed({oo}, "cancelled")
    /\ UNCHANGED numbers

(* sweep_expired: one transaction for the whole batch *)
SweepExpired ==
    /\ Expired # {}
    /\ numbers' = Released(numbers, Expired)
    /\ openOrders' = Closed(Expired, "expired")

(* Mutant: without reserved_until IS NOT NULL a hard reservation is claimed as well. *)
Claimable_Reserved(n) == numbers[n].status \in {"available", "reserved"}

(* reserve_next_msisdn with a preference: any soft hold is taken. *)
Claimable(n) == numbers[n].status = "available" \/ Soft(n)

(* Mutant: reserved_until and the open order stay. *)
ReserveNext_KeepWindow(n) ==
    /\ Claimable(n)
    /\ numbers' = [numbers EXCEPT ![n].status = "reserved"]

ReserveNext(n) ==
    /\ Claimable(n)
    /\ numbers' = [numbers EXCEPT ![n] = [status |-> "reserved", until |-> 0, for |-> None]]

(* Mutant: the word for the state is the eSIM's. *)
AssignMsisdn_Activated(n) ==
    numbers' = IF numbers[n].status \in {"reserved", "assigned"}
               THEN [numbers EXCEPT ![n].status = "activated"] ELSE numbers

AssignMsisdn(n) ==
    numbers' = IF numbers[n].status \in {"reserved", "assigned"}
               THEN [numbers EXCEPT ![n].status = "assigned"] ELSE numbers

(* release_msisdn leaves reserved_until and reserved_for as they are. *)
ReleaseMsisdn(n) ==
    numbers' = IF numbers[n].status \in {"reserved", "assigned"}
               THEN [numbers EXCEPT ![n].status = "available"] ELSE numbers

Tick ==
    /\ clock < MaxTime
    /\ clock' = clock + 1
    /\ UNCHANGED <<numbers, openOrders>>
=============================================================================
