----------------------------- MODULE Subscription -----------------------------
(***************************************************************************)
(* One subscription after its activation (services/subscription): metered  *)
(* usage, top-ups, renewal by hand and by the renewal worker's replicas,   *)
(* plan changes, price migration and termination.                          *)
(*                                                                         *)
(* HTTP handlers and service::renew read the row without a lock, call the  *)
(* catalogue and payment, and then write the columns they have computed;   *)
(* usage.rated is handled under the balance row's lock; the worker selects *)
(* and marks a due row in one locked transaction and renews afterwards.    *)
(*                                                                         *)
(* Subscriptions share nothing but the worker's batch, which can only      *)
(* delay a dispatch.  The data allowance is modelled; number and eSIM are  *)
(* in OrderFulfilment.  A usage.rated that is delivered again has no       *)
(* message id to be known by and counts as another event.                  *)
(***************************************************************************)
EXTENDS Integers

CONSTANTS
    Replica,      \* worker processes
    Request,      \* HTTP requests and usage.rated deliveries in progress
    Plan, NoPlan,
    Bought,       \* the plan it was activated on
    Quantity,     \* data allowance of each plan
    TopUp,        \* allowance of the VAS offering
    MaxUsage,     \* bound: quantity of one usage event
    Period,       \* PERIOD_DAYS
    Discount,     \* discount_periods_remaining after the activation charge
    MaxTime,      \* bound: the clock
    MaxRequests,  \* bound: requests and usage events
    MaxFaults     \* bound: crashes, rollbacks, lost payment answers

ASSUME SubscriptionAssumption ==
    /\ Bought \in Plan /\ NoPlan \notin Plan
    /\ Quantity \in [Plan -> Nat]
    /\ {MaxUsage, Discount, MaxTime, MaxRequests, MaxFaults} \subseteq Nat
    /\ {Period, TopUp} \subseteq Nat \ {0}

Process == Replica \union Request
Date == 0 .. MaxTime + Period

VARIABLES
    now,         \* bss_clock::now
    sub,         \* the subscription row
    data,        \* its bundle_balance row for data
    job,         \* what each process has read and is about to write
    attempts,    \* marks of the worker per due date (history)
    attended,    \* due dates it called service::renew for, or signalled (history)
    interrupted, \* due dates marked by a process that died before the call (history)
    unapplied,   \* approved charges less renewals and top-ups applied (history)
    discounted,  \* approved renewal charges at a discount (history)
    byHand,      \* somebody renewed over HTTP (history)
    used,        \* usage handled in this period (history)
    spilled,     \* the part of it the bundle did not cover (history)
    requests, faults

history == <<attempts, attended, interrupted, unapplied, discounted, byHand, used, spilled>>
vars == <<now, sub, data, job, history, requests, faults>>

Row == [state : {"active", "blocked", "terminated"}, plan : Plan, pending : Plan \union {NoPlan},
        effective : Date, due : Date, attempted : Date, discount : 0 .. Discount]
Balance == [total : Nat, consumed : Nat]
Op == {"usage", "vas", "renew", "schedule", "cancel", "migrate", "terminate"}
Job == [op : Op, at : {"marked", "read", "charged", "declined", "locked", "totals"},
        read : Row, clock : 0 .. MaxTime, bal : Balance]
NoJob == [op |-> "none"]
Unread == [total |-> 0, consumed |-> 0]

TypeOK ==
    /\ now \in 0 .. MaxTime
    /\ sub \in Row
    /\ data \in Balance
    /\ job \in [Process -> Job \union {NoJob}]
    /\ attempts \in [Date -> Nat]
    /\ attended \subseteq Date /\ interrupted \subseteq Date
    /\ unapplied \in Int
    /\ {discounted, used, spilled, requests, faults} \subseteq Nat
    /\ byHand \in BOOLEAN

(* create: active, the first period paid; NULL dates are 0. *)
Init ==
    /\ now = 0
    /\ sub = [state |-> "active", plan |-> Bought, pending |-> NoPlan, effective |-> 0,
              due |-> Period, attempted |-> 0, discount |-> Discount]
    /\ data = [total |-> Quantity[Bought], consumed |-> 0]
    /\ job = [p \in Process |-> NoJob]
    /\ attempts = [d \in Date |-> 0] /\ attended = {} /\ interrupted = {}
    /\ unapplied = 0 /\ discounted = 0
    /\ byHand = FALSE
    /\ used = 0 /\ spilled = 0
    /\ requests = 0 /\ faults = 0

Tick ==
    /\ now < MaxTime
    /\ now' = now + 1
    /\ UNCHANGED <<sub, data, job, history, requests, faults>>

Fault == faults < MaxFaults /\ faults' = faults + 1

Does(p, op, at) == job[p] # NoJob /\ job[p].op = op /\ job[p].at = at
Goes(p, at) == job' = [job EXCEPT ![p].at = at]
Ends(p) == job' = [job EXCEPT ![p] = NoJob]

(* The balance row lock of a usage.rated transaction. *)
Locked == \E p \in Process : Does(p, "usage", "locked")

-----------------------------------------------------------------------------
(* The renewal worker: sweep_due and sweep_skipped. *)

(* Mutant: the dedup column is not looked at. *)
Unattempted_Always == TRUE

(* last_renewal_attempted_at IS NULL OR last_renewal_attempted_at < next_renewal_at *)
Unattempted == sub.attempted < sub.due

Overdue(state) == sub.state = state /\ sub.due <= now /\ Unattempted

(* mark_renewal_attempted, committed before the row lock is released. *)
MarkAttempted ==
    /\ sub' = [sub EXCEPT !.attempted = now]
    /\ attempts' = [attempts EXCEPT ![sub.due] = @ + 1]
    /\ UNCHANGED <<interrupted, unapplied, discounted, byHand, used, spilled>>

Starts(p, op, at, clock) ==
    job' = [job EXCEPT ![p] = [op |-> op, at |-> at, read |-> sub, clock |-> clock, bal |-> Unread]]

SweepDue(w) ==
    /\ job[w] = NoJob
    /\ Overdue("active")
    /\ MarkAttempted
    /\ Starts(w, "renew", "marked", 0)
    /\ UNCHANGED <<now, data, attended, requests, faults>>

(* Blocked and overdue: one subscription.renewal_skipped, no charge. *)
SweepSkipped(w) ==
    /\ job[w] = NoJob
    /\ Overdue("blocked")
    /\ MarkAttempted
    /\ attended' = attended \union {sub.due}
    /\ UNCHANGED <<now, data, job, requests, faults>>

(* check_renew_allowed *)
Renewable == sub.state \in {"active", "blocked"}

Calls(w) ==
    /\ IF Renewable THEN Starts(w, "renew", "read", now) ELSE Ends(w)
    /\ attended' = attended \union {job[w].read.due}

(* Mutant: what is dispatched is selected again, after the mark. *)
Dispatch_Requeried(w) ==
    /\ Does(w, "renew", "marked")
    /\ IF Overdue("active") THEN Calls(w) ELSE Ends(w) /\ UNCHANGED attended
    /\ UNCHANGED <<now, sub, data, attempts, interrupted, unapplied, discounted, byHand, used,
                   spilled, requests, faults>>

(* The dispatch calls service::renew, which reads the row again. *)
Dispatch(w) ==
    /\ Does(w, "renew", "marked")
    /\ Calls(w)
    /\ UNCHANGED <<now, sub, data, attempts, interrupted, unapplied, discounted, byHand, used,
                   spilled, requests, faults>>

-----------------------------------------------------------------------------
(* Requests: the unlocked read and the checks made on it. *)

Allowed(op) ==
    \/ op = "usage" /\ sub.state = "active"
    \/ op = "vas" /\ sub.state # "terminated"
    \/ op \in {"renew", "migrate", "terminate"} /\ Renewable
    \/ op = "schedule" /\ sub.state = "active" /\ sub.pending = NoPlan
    \/ op = "cancel" /\ sub.pending # NoPlan

Begin(r, op) ==
    /\ job[r] = NoJob
    /\ requests < MaxRequests
    /\ requests' = requests + 1
    /\ Allowed(op)
    /\ Starts(r, op, "read", IF op = "renew" THEN now ELSE 0)
    /\ byHand' = (byHand \/ op = "renew")
    /\ UNCHANGED <<now, sub, data, attempts, attended, interrupted, unapplied, discounted, used,
                   spilled, faults>>

(* A refusal, an upstream error, an empty wallet: nothing has been charged. *)
Abandon(p) ==
    /\ job[p] # NoJob /\ job[p].at = "read"
    /\ Ends(p)
    /\ UNCHANGED <<now, sub, data, history, requests, faults>>

(* The process dies, the client goes away, the transaction fails. *)
Crash(p) ==
    /\ job[p] # NoJob
    /\ Ends(p)
    /\ interrupted' = IF Does(p, "renew", "marked") THEN interrupted \union {job[p].read.due}
                      ELSE interrupted
    /\ Fault
    /\ UNCHANGED <<now, sub, data, attempts, attended, unapplied, discounted, byHand, used,
                   spilled, requests>>

-----------------------------------------------------------------------------
(* Charges. *)

(* applying_pending *)
Pivots(j) == j.read.pending # NoPlan /\ j.read.effective <= j.clock

(* applying_discount *)
Discounts(j) == j.op = "renew" /\ ~Pivots(j) /\ j.read.discount # 0

Approve(p) ==
    /\ unapplied' = unapplied + 1
    /\ discounted' = IF Discounts(job[p]) THEN discounted + 1 ELSE discounted
    /\ UNCHANGED <<attempts, attended, interrupted, byHand, used, spilled>>

Charge(p) ==
    /\ Does(p, "renew", "read") \/ Does(p, "vas", "read")
    /\ \/ Approve(p) /\ Goes(p, "charged") /\ UNCHANGED faults
       \/ Approve(p) /\ Ends(p) /\ Fault        \* the answer is lost
       \/ UNCHANGED <<history, faults>>
          /\ IF job[p].op = "renew" THEN Goes(p, "declined") ELSE Ends(p)
    /\ UNCHANGED <<now, sub, data, requests>>

Grant ==
    /\ unapplied' = unapplied - 1
    /\ UNCHANGED <<attempts, attended, interrupted, discounted, byHand>>

-----------------------------------------------------------------------------
(* service::renew after the charge. *)

(* Mutant: the counter is not decremented. *)
Remaining_Kept(j) == j.read.discount

Remaining(j) == IF j.read.discount > 0 THEN j.read.discount - 1 ELSE 0

Target(j) == IF Pivots(j) THEN j.read.pending ELSE j.read.plan

Renewed(j) ==
    IF Pivots(j)
    THEN [sub EXCEPT !.state = "active", !.plan = j.read.pending, !.pending = NoPlan,
                     !.effective = 0, !.discount = 0, !.due = j.clock + Period]
    ELSE [sub EXCEPT !.state = "active", !.discount = Remaining(j), !.due = j.clock + Period]

Renews(p) ==
    /\ job[p].read.state = "active"
    /\ ~Locked
    /\ sub' = Renewed(job[p])
    /\ data' = [total |-> Quantity[Target(job[p])], consumed |-> 0]
    /\ used' = 0 /\ spilled' = 0
    /\ Grant
    /\ Ends(p)
    /\ UNCHANGED <<now, requests, faults>>

(* Mutant: the payment status is not looked at. *)
RenewApproved_AnyStatus(p) ==
    (Does(p, "renew", "charged") \/ Does(p, "renew", "declined")) /\ Renews(p)

(* TRANSITIONS knows renew from active only. *)
RenewApproved(p) == Does(p, "renew", "charged") /\ Renews(p)

(* next_state refuses a row that was read as blocked: rolled back. *)
RenewRefused(p) ==
    /\ Does(p, "renew", "charged") \/ Does(p, "renew", "declined")
    /\ job[p].read.state = "blocked"
    /\ Ends(p)
    /\ UNCHANGED <<now, sub, data, history, requests, faults>>

RenewDeclined(p) ==
    /\ Does(p, "renew", "declined")
    /\ job[p].read.state = "active"
    /\ sub' = [sub EXCEPT !.state = "blocked"]
    /\ Ends(p)
    /\ UNCHANGED <<now, data, history, requests, faults>>

-----------------------------------------------------------------------------
(* purchase_vas after the charge: totals are read without a lock. *)

ReadTotals(p) ==
    /\ Does(p, "vas", "charged")
    /\ job' = [job EXCEPT ![p].at = "totals", ![p].bal = data]
    /\ UNCHANGED <<now, sub, data, history, requests, faults>>

ApplyTopUp(p) ==
    /\ Does(p, "vas", "totals")
    /\ ~Locked
    /\ data' = [data EXCEPT !.total = job[p].bal.total + TopUp]
    /\ sub' = IF job[p].read.state = "blocked" THEN [sub EXCEPT !.state = "active"] ELSE sub
    /\ Grant
    /\ Ends(p)
    /\ UNCHANGED <<now, used, spilled, requests, faults>>

-----------------------------------------------------------------------------
(* handle_usage_rated. *)

(* Mutant: a plain SELECT. *)
LockBalance_Plain(p) ==
    /\ Does(p, "usage", "read")
    /\ job' = [job EXCEPT ![p].at = "locked", ![p].bal = data]
    /\ UNCHANGED <<now, sub, data, history, requests, faults>>

(* SELECT ... FOR UPDATE *)
LockBalance(p) ==
    /\ Does(p, "usage", "read")
    /\ ~Locked
    /\ job' = [job EXCEPT ![p].at = "locked", ![p].bal = data]
    /\ UNCHANGED <<now, sub, data, history, requests, faults>>

(* consume *)
Consumed(b, q) == IF b.consumed + q <= b.total THEN b.consumed + q ELSE b.total

(* is_exhausted writes blocked, whatever the row has become since it was read. *)
ApplyUsage(p, q) ==
    LET b == job[p].bal
        c == Consumed(b, q)
    IN  /\ Does(p, "usage", "locked")
        /\ data' = [data EXCEPT !.consumed = c]
        /\ sub' = IF b.total <= c THEN [sub EXCEPT !.state = "blocked"] ELSE sub
        /\ used' = used + q
        /\ spilled' = spilled + (q - (c - b.consumed))
        /\ Ends(p)
        /\ UNCHANGED <<now, attempts, attended, interrupted, unapplied, discounted, byHand,
                       requests, faults>>

-----------------------------------------------------------------------------
(* Plan changes, price migration and termination write what they read. *)

Writes(p, op, row) ==
    /\ Does(p, op, "read")
    /\ sub' = row
    /\ Ends(p)
    /\ UNCHANGED <<now, data, history, requests, faults>>

SchedulePlanChange(p) ==
    /\ Does(p, "schedule", "read")
    /\ \E n \in Plan \ {job[p].read.plan} :
            Writes(p, "schedule", [sub EXCEPT !.pending = n, !.effective = job[p].read.due])

CancelPendingPlanChange(p) ==
    Writes(p, "cancel", [sub EXCEPT !.pending = NoPlan, !.effective = 0])

MigrateToPrice(p) ==
    \E d \in 1 .. MaxTime :
        Writes(p, "migrate", [sub EXCEPT !.pending = job[p].read.plan, !.effective = d])

(* Mutant: the trigger is written instead of the state. *)
Terminate_Trigger(p) == Writes(p, "terminate", [sub EXCEPT !.state = "terminate"])

Terminate(p) == Writes(p, "terminate", [sub EXCEPT !.state = "terminated"])

-----------------------------------------------------------------------------

Sweep(w) == SweepDue(w) \/ SweepSkipped(w)

Proceed(p) ==
    \/ Dispatch(p) \/ Abandon(p) \/ Charge(p)
    \/ RenewApproved(p) \/ RenewRefused(p) \/ RenewDeclined(p)
    \/ ReadTotals(p) \/ ApplyTopUp(p)
    \/ LockBalance(p) \/ \E q \in 1 .. MaxUsage : ApplyUsage(p, q)
    \/ SchedulePlanChange(p) \/ CancelPendingPlanChange(p) \/ MigrateToPrice(p)
    \/ Terminate(p)

Next ==
    \/ Tick
    \/ \E w \in Replica : Sweep(w)
    \/ \E r \in Request, op \in Op : Begin(r, op)
    \/ \E p \in Process : Proceed(p) \/ Crash(p)

Spec == Init /\ [][Next]_vars

(* tick_loop sweeps for ever, and a handler ends: its clients have timeouts. *)
Fairness ==
    /\ \A w \in Replica : WF_vars(Sweep(w))
    /\ \A p \in Process : WF_vars(Proceed(p))

FairSpec == Spec /\ Fairness

-----------------------------------------------------------------------------
(* Properties. *)

(* "a peer replica or a re-fired tick doesn't double-charge the same period
   boundary" (last_renewal_attempted_at): a due date is dispatched or signalled
   once, whatever users and operators do to the row meanwhile. *)
OneAttemptPerDue == \A d \in Date : attempts[d] <= 1

(* While nobody renews by hand the promotional price is charged for no more
   periods than were promised, although renew reads its counter unlocked. *)
DiscountWithinBudget == ~byHand => discounted <= Discount

(* Nothing is renewed or topped up on a declined charge, and no charge is
   applied twice. *)
GrantedWasPaid == unapplied >= 0

(* No usage is lost or counted twice in a period: concurrent decrements and a
   renewal's reset go through the balance row's lock. *)
UsageConserved == used = data.consumed + spilled

(* A date that is due is attended to: the worker calls service::renew for it or
   signals the skip, unless the row moves on by itself or the process that marked
   it dies before the call.  The mark alone attends to nothing, although it hides
   the row from every later sweep.  Left out is a date that an earlier date's mark
   had already passed when a renewal, a whole period long, wrote it. *)
Passed == sub.due <= sub.attempted /\ attempts[sub.due] = 0

Waiting == sub.state # "terminated" /\ sub.due <= now /\ ~Passed
           /\ sub.due \notin attended \union interrupted

DueIsAttended == Waiting ~> ~Waiting
=============================================================================
