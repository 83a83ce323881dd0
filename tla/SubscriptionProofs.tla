-------------------------- MODULE SubscriptionProofs --------------------------
(***************************************************************************)
(* What a subscription keeps for any number of worker replicas, requests,  *)
(* usage events, faults and plans.                                         *)
(***************************************************************************)
EXTENDS Subscription, FiniteSetTheorems, TLAPS

(* A step of a process, with the begin of a request and the two sweeps. *)
LEMMA NextCases ==
  ASSUME Next
  PROVE  \/ Tick
         \/ \E w \in Process : SweepDue(w) \/ SweepSkipped(w)
         \/ \E r \in Request, op \in Op : Begin(r, op)
         \/ \E p \in Process : Proceed(p)
         \/ \E p \in Process : Crash(p)
  BY DEF Next, Sweep, Process

(* A process that is at something has a job, and Row is what it read. *)
LEMMA JobFacts ==
  ASSUME TypeOK, NEW p \in Process, job[p] # NoJob
  PROVE  /\ job[p] \in Job
         /\ job[p].op \in Op /\ job[p].read \in Row /\ job[p].bal \in Balance
         /\ job[p].clock \in 0 .. MaxTime
  BY DEF TypeOK, Job

LEMMA DateFacts ==
  /\ 0 \in Date /\ Period \in Date
  /\ \A c \in 0 .. MaxTime : c \in Date /\ c + Period \in Date
  /\ \A d \in Date : d \in Nat
  BY SubscriptionAssumption DEF Date

LEMMA UnreadType == Unread \in Balance
  BY DEF Unread, Balance

-----------------------------------------------------------------------------
(* Type correctness. *)

LEMMA TypeInit == Init => TypeOK
<1> SUFFICES ASSUME Init PROVE TypeOK
  OBVIOUS
<1>1. sub \in Row
  BY SubscriptionAssumption, DateFacts DEF Init, Row
<1>2. data \in Balance
  BY SubscriptionAssumption DEF Init, Balance
<1>3. job \in [Process -> Job \union {NoJob}] /\ attempts \in [Date -> Nat]
  BY DEF Init
<1>4. now \in 0 .. MaxTime
  BY SubscriptionAssumption DEF Init
<1>5. unapplied \in Int /\ {discounted, used, spilled, requests, faults} \subseteq Nat
  BY DEF Init
<1>6. byHand \in BOOLEAN
  BY DEF Init
<1>7. attended \subseteq Date /\ interrupted \subseteq Date
  BY DEF Init
<1>. QED BY <1>1, <1>2, <1>3, <1>4, <1>5, <1>6, <1>7 DEF TypeOK

LEMMA StartsType ==
  ASSUME TypeOK, NEW p \in Process, NEW op \in Op, NEW at \in {"marked", "read"},
         NEW clock \in 0 .. MaxTime, Starts(p, op, at, clock)
  PROVE  job' \in [Process -> Job \union {NoJob}]
<1>1. [op |-> op, at |-> at, read |-> sub, clock |-> clock, bal |-> Unread] \in Job
  BY UnreadType DEF Job, TypeOK
<1>. QED BY <1>1 DEF Starts, TypeOK

LEMMA EndsType ==
  ASSUME TypeOK, NEW p \in Process, Ends(p)
  PROVE  job' \in [Process -> Job \union {NoJob}]
  BY DEF Ends, TypeOK

LEMMA GoesType ==
  ASSUME TypeOK, NEW p \in Process, job[p] # NoJob, NEW at \in {"charged", "declined"}, Goes(p, at)
  PROVE  job' \in [Process -> Job \union {NoJob}]
<1>1. [job[p] EXCEPT !.at = at] \in Job
  BY JobFacts DEF Job
<1>. QED BY <1>1 DEF Goes, TypeOK

LEMMA MarkType ==
  ASSUME TypeOK, MarkAttempted
  PROVE  /\ sub' \in Row
         /\ attempts' \in [Date -> Nat]
         /\ sub.due \in Date /\ interrupted' \subseteq Date
         /\ unapplied' \in Int /\ {discounted', used', spilled'} \subseteq Nat /\ byHand' \in BOOLEAN
  BY DateFacts DEF MarkAttempted, TypeOK, Row

LEMMA SweepType ==
  ASSUME TypeOK, NEW w \in Process, SweepDue(w) \/ SweepSkipped(w)
  PROVE  TypeOK'
<1>1. CASE SweepDue(w)
  <2>1. job' \in [Process -> Job \union {NoJob}]
    BY <1>1, StartsType, SubscriptionAssumption DEF SweepDue, Op
  <2>. QED BY <1>1, <2>1, MarkType DEF SweepDue, TypeOK
<1>2. CASE SweepSkipped(w)
  BY <1>2, MarkType DEF SweepSkipped, TypeOK
<1>. QED BY <1>1, <1>2

LEMMA BeginType ==
  ASSUME TypeOK, NEW r \in Request, NEW op \in Op, Begin(r, op)
  PROVE  TypeOK'
<1>1. r \in Process /\ (IF op = "renew" THEN now ELSE 0) \in 0 .. MaxTime
  BY SubscriptionAssumption DEF Process, TypeOK
<1>2. job' \in [Process -> Job \union {NoJob}]
  BY <1>1, StartsType DEF Begin
<1>3. byHand' \in BOOLEAN
  BY DEF Begin, TypeOK
<1>. QED BY <1>2, <1>3 DEF Begin, TypeOK

LEMMA RenewedType ==
  ASSUME TypeOK, NEW p \in Process, job[p] # NoJob
  PROVE  Renewed(job[p]) \in Row /\ Target(job[p]) \in Plan
<1>1. Remaining(job[p]) \in 0 .. Discount
  BY JobFacts, SubscriptionAssumption DEF Remaining, Row
<1>2. job[p].clock + Period \in Date /\ 0 \in Date /\ 0 \in 0 .. Discount
  BY JobFacts, DateFacts, SubscriptionAssumption
<1>3. Pivots(job[p]) => job[p].read.pending \in Plan
  BY JobFacts DEF Pivots, Row
<1>. QED BY <1>1, <1>2, <1>3, JobFacts, SubscriptionAssumption DEF Renewed, Target, TypeOK, Row

(* A decrement takes at most the usage from the balance. *)
LEMMA ConsumedBound ==
  ASSUME NEW b \in Balance, NEW q \in Nat
  PROVE  Consumed(b, q) \in Nat /\ q - (Consumed(b, q) - b.consumed) \in Nat
  BY DEF Consumed, Balance

LEMMA ProceedType ==
  ASSUME TypeOK, NEW p \in Process, Proceed(p)
  PROVE  TypeOK'
<1> USE DEF history
<1>1. CASE Dispatch(p)
  <2>1. job' \in [Process -> Job \union {NoJob}]
    <3>1. now \in 0 .. MaxTime /\ "renew" \in Op
      BY DEF TypeOK, Op
    <3>. QED BY <1>1, <3>1, StartsType, EndsType DEF Dispatch, Calls
  <2>2. job[p].read.due \in Date
    BY <1>1, JobFacts DEF Dispatch, Does, Row
  <2>3. attended' \subseteq Date
    BY <1>1, <2>2 DEF Dispatch, Calls, TypeOK
  <2>. QED BY <1>1, <2>1, <2>3 DEF Dispatch, TypeOK
<1>2. CASE Abandon(p)
  BY <1>2, EndsType DEF Abandon, TypeOK
<1>3. CASE Charge(p)
  <2>1. job' \in [Process -> Job \union {NoJob}]
    BY <1>3, GoesType, EndsType DEF Charge, Does
  <2>2. /\ unapplied' \in Int /\ {discounted', used', spilled', faults'} \subseteq Nat
        /\ byHand' \in BOOLEAN /\ attempts' \in [Date -> Nat]
        /\ attended' \subseteq Date /\ interrupted' \subseteq Date
    BY <1>3 DEF Charge, Approve, Fault, TypeOK
  <2>. QED BY <1>3, <2>1, <2>2 DEF Charge, TypeOK
<1>4. CASE RenewApproved(p)
  <2>0. job[p] # NoJob /\ Renews(p)
    BY <1>4 DEF RenewApproved, Does
  <2>1. sub' \in Row /\ job' \in [Process -> Job \union {NoJob}]
    BY <2>0, RenewedType, EndsType DEF Renews
  <2>2. data' \in Balance
    BY <2>0, RenewedType, SubscriptionAssumption DEF Renews, Balance
  <2>. QED BY <2>0, <2>1, <2>2 DEF Renews, Grant, TypeOK
<1>5. CASE RenewRefused(p)
  BY <1>5, EndsType DEF RenewRefused, TypeOK
<1>6. CASE RenewDeclined(p)
  <2>1. sub' \in Row
    BY <1>6 DEF RenewDeclined, TypeOK, Row
  <2>. QED BY <1>6, <2>1, EndsType DEF RenewDeclined, TypeOK
<1>7. CASE ReadTotals(p) \/ LockBalance(p)
  <2>1. \A at \in {"totals", "locked"} : [job[p] EXCEPT !.at = at, !.bal = data] \in Job
    BY <1>7, JobFacts DEF ReadTotals, LockBalance, Does, Job, TypeOK
  <2>. QED BY <1>7, <2>1 DEF ReadTotals, LockBalance, TypeOK
<1>8. CASE ApplyTopUp(p)
  <2>1. job[p] # NoJob
    BY <1>8 DEF ApplyTopUp, Does
  <2>2. data' \in Balance
    BY <1>8, <2>1, JobFacts, SubscriptionAssumption DEF ApplyTopUp, TypeOK, Balance
  <2>3. sub' \in Row
    BY <1>8 DEF ApplyTopUp, TypeOK, Row
  <2>. QED BY <1>8, <2>2, <2>3, EndsType DEF ApplyTopUp, Grant, TypeOK
<1>9. ASSUME NEW q \in 1 .. MaxUsage, ApplyUsage(p, q) PROVE TypeOK'
  <2>1. job[p] # NoJob
    BY <1>9 DEF ApplyUsage, Does
  <2>2. /\ Consumed(job[p].bal, q) \in Nat
        /\ q - (Consumed(job[p].bal, q) - job[p].bal.consumed) \in Nat
    BY <2>1, JobFacts, ConsumedBound
  <2>3. data' \in Balance /\ used' \in Nat /\ spilled' \in Nat
    BY <1>9, <2>2 DEF ApplyUsage, TypeOK, Balance
  <2>4. sub' \in Row
    BY <1>9 DEF ApplyUsage, TypeOK, Row
  <2>. QED BY <1>9, <2>3, <2>4, EndsType DEF ApplyUsage, TypeOK
<1>10. CASE SchedulePlanChange(p) \/ CancelPendingPlanChange(p) \/ MigrateToPrice(p) \/ Terminate(p)
  <2>1. job[p] # NoJob
    BY <1>10 DEF SchedulePlanChange, CancelPendingPlanChange, MigrateToPrice, Terminate, Writes, Does
  <2>2. sub' \in Row
    <3>1. 1 .. MaxTime \subseteq Date
      BY SubscriptionAssumption DEF Date
    <3>2. sub \in Row /\ job[p].read \in Row /\ job[p].read.due \in Date /\ job[p].read.plan \in Plan
      BY <2>1, JobFacts DEF TypeOK, Row
    <3>3. CASE SchedulePlanChange(p)
      BY <3>2, <3>3 DEF SchedulePlanChange, Writes, Row
    <3>4. CASE CancelPendingPlanChange(p) \/ Terminate(p)
      BY <3>2, <3>4, DateFacts DEF CancelPendingPlanChange, Terminate, Writes, Row
    <3>5. CASE MigrateToPrice(p)
      BY <3>1, <3>2, <3>5 DEF MigrateToPrice, Writes, Row
    <3>. QED BY <1>10, <3>3, <3>4, <3>5
  <2>. QED BY <1>10, <2>2, EndsType
           DEF SchedulePlanChange, CancelPendingPlanChange, MigrateToPrice, Terminate, Writes, TypeOK
<1>. QED BY <1>1, <1>2, <1>3, <1>4, <1>5, <1>6, <1>7, <1>8, <1>9, <1>10 DEF Proceed

LEMMA TypeStep == TypeOK /\ [Next]_vars => TypeOK'
<1> SUFFICES ASSUME TypeOK, [Next]_vars PROVE TypeOK'
  OBVIOUS
<1> USE DEF history
<1>1. CASE Tick
  BY <1>1, SubscriptionAssumption DEF Tick, TypeOK
<1>2. ASSUME NEW p \in Process, Crash(p) PROVE TypeOK'
  <2>1. job[p].read.due \in Date
    BY <1>2, JobFacts DEF Crash, Row
  <2>2. interrupted' \subseteq Date
    BY <1>2, <2>1 DEF Crash, TypeOK
  <2>. QED BY <1>2, <2>2, EndsType DEF Crash, Fault, TypeOK
<1>3. CASE UNCHANGED vars
  BY <1>3 DEF vars, TypeOK
<1>. QED BY <1>1, <1>2, <1>3, NextCases, SweepType, BeginType, ProceedType

(* Every reachable state of a subscription is well typed: what the handlers and
   the worker compute from stale reads is still a row and a balance. *)
THEOREM TypeCorrect == Spec => []TypeOK
  BY TypeInit, TypeStep, PTL DEF Spec

-----------------------------------------------------------------------------
(* One attempt per due date. *)

(* A due date that was attempted is not after the row's last attempt. *)
Attempted == \A d \in Date : attempts[d] > 0 => d <= sub.attempted

AttemptInv == OneAttemptPerDue /\ Attempted

(* All that writes the row keeps the column, except the worker's mark. *)
LEMMA KeepsAttempted ==
  ASSUME TypeOK, NEW p \in Process, Proceed(p)
  PROVE  sub'.attempted = sub.attempted /\ attempts' = attempts
<1> USE DEF history, TypeOK, Row
<1>1. CASE Dispatch(p) \/ Abandon(p) \/ RenewRefused(p) \/ ReadTotals(p) \/ LockBalance(p)
  BY <1>1 DEF Dispatch, Calls, Abandon, RenewRefused, ReadTotals, LockBalance
<1>2. CASE Charge(p)
  BY <1>2 DEF Charge, Approve
<1>3. CASE RenewApproved(p)
  BY <1>3 DEF RenewApproved, Renews, Renewed, Grant
<1>4. CASE RenewDeclined(p)
  BY <1>4 DEF RenewDeclined
<1>5. CASE ApplyTopUp(p)
  BY <1>5 DEF ApplyTopUp, Grant
<1>6. ASSUME NEW q \in 1 .. MaxUsage, ApplyUsage(p, q)
      PROVE  sub'.attempted = sub.attempted /\ attempts' = attempts
  BY <1>6 DEF ApplyUsage
<1>7. CASE SchedulePlanChange(p) \/ CancelPendingPlanChange(p) \/ MigrateToPrice(p) \/ Terminate(p)
  BY <1>7 DEF SchedulePlanChange, CancelPendingPlanChange, MigrateToPrice, Terminate, Writes
<1>. QED BY <1>1, <1>2, <1>3, <1>4, <1>5, <1>6, <1>7 DEF Proceed

LEMMA SweepAttempts ==
  ASSUME TypeOK, AttemptInv, NEW w \in Process, SweepDue(w) \/ SweepSkipped(w)
  PROVE  AttemptInv'
<1>1. sub.attempted < sub.due /\ sub.due <= now /\ MarkAttempted
  BY DEF SweepDue, SweepSkipped, Overdue, Unattempted
<1>2. /\ sub \in Row /\ attempts \in [Date -> Nat] /\ now \in Nat
      /\ sub.due \in Date /\ sub.attempted \in Nat
  BY DateFacts DEF TypeOK, Row
<1>3. attempts[sub.due] = 0
  BY <1>1, <1>2, DateFacts DEF AttemptInv, Attempted
<1>4. attempts' = [attempts EXCEPT ![sub.due] = 1] /\ sub'.attempted = now
  BY <1>1, <1>2, <1>3 DEF MarkAttempted, Row
<1>5. ASSUME NEW d \in Date PROVE attempts'[d] <= 1 /\ (attempts'[d] > 0 => d <= now)
  BY <1>1, <1>2, <1>4, <1>5, DateFacts DEF AttemptInv, Attempted, OneAttemptPerDue
<1>. QED BY <1>4, <1>5 DEF AttemptInv, Attempted, OneAttemptPerDue

LEMMA AttemptStep == TypeOK /\ AttemptInv /\ [Next]_vars => AttemptInv'
<1> SUFFICES ASSUME TypeOK, AttemptInv, [Next]_vars PROVE AttemptInv'
  OBVIOUS
<1>1. CASE sub'.attempted = sub.attempted /\ attempts' = attempts
  BY <1>1 DEF AttemptInv, Attempted, OneAttemptPerDue
<1>2. \/ UNCHANGED vars \/ Tick \/ \E p \in Process : Crash(p)
      \/ \E r \in Request, op \in Op : Begin(r, op)
      => sub' = sub /\ attempts' = attempts
  BY DEF vars, history, Tick, Crash, Begin
<1>. QED BY <1>1, <1>2, NextCases, KeepsAttempted, SweepAttempts

(* A due date is dispatched or signalled by the worker at most once: the mark
   moves the column past it in the transaction that finds it due, and nothing
   else writes the column. *)
THEOREM OneDispatch == Spec => []OneAttemptPerDue
<1>1. Init => AttemptInv
  BY DEF Init, AttemptInv, Attempted, OneAttemptPerDue
<1>2. AttemptInv => OneAttemptPerDue
  BY DEF AttemptInv
<1>. QED BY <1>1, <1>2, AttemptStep, TypeCorrect, PTL DEF Spec

-----------------------------------------------------------------------------
(* Usage. *)

(* The row lock has one owner, and what it read is what is there. *)
LockExclusive ==
  \A p, q \in Process : Does(p, "usage", "locked") /\ Does(q, "usage", "locked") => p = q

LockedIsCurrent == \A p \in Process : Does(p, "usage", "locked") => job[p].bal = data

UsageInv == UsageConserved /\ LockExclusive /\ LockedIsCurrent

(* A step that takes no lock and leaves the balance alone while one is held. *)
LEMMA UsageQuiet ==
  ASSUME UsageInv, UsageConserved', NEW p \in Process,
         \A q \in Process \ {p} : job'[q] = job[q],
         ~Does(p, "usage", "locked")',
         \A q \in Process \ {p} : Does(q, "usage", "locked") => data' = data
  PROVE  UsageInv'
  BY DEF UsageInv, LockExclusive, LockedIsCurrent, Does

LEMMA EndsQuiet ==
  ASSUME TypeOK, NEW p \in Process, Ends(p)
  PROVE  /\ \A q \in Process \ {p} : job'[q] = job[q]
         /\ job'[p] = NoJob
  BY DEF Ends, TypeOK

LEMMA StartsQuiet ==
  ASSUME TypeOK, NEW p \in Process, NEW op \in Op, NEW at \in {"marked", "read"}, NEW clock,
         Starts(p, op, at, clock)
  PROVE  /\ \A q \in Process \ {p} : job'[q] = job[q]
         /\ job'[p].op = op /\ job'[p].at = at /\ job'[p].read = sub
  BY DEF Starts, TypeOK

LEMMA GoesQuiet ==
  ASSUME TypeOK, NEW p \in Process, job[p] # NoJob, NEW at \in {"charged", "declined"}, Goes(p, at)
  PROVE  /\ \A q \in Process \ {p} : job'[q] = job[q]
         /\ job'[p].at = at
         /\ job'[p].op = job[p].op /\ job'[p].read = job[p].read /\ job'[p].clock = job[p].clock
  BY JobFacts DEF Goes, TypeOK, Job

LEMMA UsageBegins ==
  ASSUME TypeOK, UsageInv, NEW p \in Process, NEW op \in Op, NEW at \in {"marked", "read"}, NEW clock,
         Starts(p, op, at, clock), UNCHANGED <<data, used, spilled>>
  PROVE  UsageInv'
<1>1. ~Does(p, "usage", "locked")'
  BY StartsQuiet DEF Does
<1>2. \A q \in Process \ {p} : job'[q] = job[q]
  BY StartsQuiet
<1>3. UsageConserved'
  BY DEF UsageInv, UsageConserved
<1>. QED BY <1>1, <1>2, <1>3, UsageQuiet

LEMMA UsageEnds ==
  ASSUME TypeOK, UsageInv, NEW p \in Process, Ends(p), UsageConserved', data' = data \/ ~Locked
  PROVE  UsageInv'
<1>1. ~Does(p, "usage", "locked")'
  BY EndsQuiet DEF Does
<1>. QED BY <1>1, EndsQuiet, UsageQuiet DEF Locked

LEMMA UsageProceeds ==
  ASSUME TypeOK, UsageInv, NEW p \in Process, Proceed(p)
  PROVE  UsageInv'
<1> USE DEF history
<1>0. UNCHANGED <<data, used, spilled>> => UsageConserved'
  BY DEF UsageInv, UsageConserved
<1>1. CASE Dispatch(p)
  <2>1. "renew" \in Op
    BY DEF Op
  <2>. QED BY <1>0, <1>1, <2>1, UsageBegins, UsageEnds DEF Dispatch, Calls
<1>2. CASE Abandon(p) \/ RenewRefused(p)
  BY <1>0, <1>2, UsageEnds DEF Abandon, RenewRefused
<1>3. CASE Charge(p)
  <2>1. UNCHANGED <<data, used, spilled>> /\ job[p] # NoJob
    BY <1>3 DEF Charge, Approve, Does
  <2>2. Ends(p) \/ Goes(p, "charged") \/ Goes(p, "declined")
    BY <1>3 DEF Charge
  <2>3. CASE Goes(p, "charged") \/ Goes(p, "declined")
    <3>1. ~Does(p, "usage", "locked")'
      BY <2>1, <2>3, GoesQuiet DEF Does
    <3>2. \A q \in Process \ {p} : job'[q] = job[q]
      BY <2>1, <2>3, GoesQuiet
    <3>. QED BY <1>0, <2>1, <3>1, <3>2, UsageQuiet
  <2>. QED BY <1>0, <2>1, <2>2, <2>3, UsageEnds
<1>4. CASE RenewApproved(p)
  <2>1. UsageConserved'
    BY <1>4, SubscriptionAssumption, RenewedType DEF RenewApproved, Does, Renews, UsageConserved
  <2>. QED BY <1>4, <2>1, UsageEnds DEF RenewApproved, Renews
<1>5. CASE RenewDeclined(p)
  BY <1>0, <1>5, UsageEnds DEF RenewDeclined
<1>6. CASE ReadTotals(p)
  <2>1. /\ \A q \in Process \ {p} : job'[q] = job[q]
        /\ ~Does(p, "usage", "locked")' /\ UNCHANGED <<data, used, spilled>>
    BY <1>6, JobFacts DEF ReadTotals, Does, Job, TypeOK
  <2>. QED BY <1>0, <2>1, UsageQuiet
<1>7. CASE ApplyTopUp(p)
  <2>1. UsageConserved'
    BY <1>7 DEF ApplyTopUp, UsageInv, UsageConserved, TypeOK, Balance
  <2>. QED BY <1>7, <2>1, UsageEnds DEF ApplyTopUp
<1>8. CASE LockBalance(p)
  <2>1. /\ \A q \in Process : ~Does(q, "usage", "locked")
        /\ \A q \in Process \ {p} : job'[q] = job[q]
        /\ job'[p].bal = data /\ UNCHANGED <<data, used, spilled>>
    BY <1>8, JobFacts DEF LockBalance, Locked, Does, Job, TypeOK
  <2>2. \A q \in Process : Does(q, "usage", "locked")' => q = p
    BY <2>1 DEF Does
  <2>. QED BY <1>0, <2>1, <2>2 DEF UsageInv, LockExclusive, LockedIsCurrent
<1>9. ASSUME NEW q \in 1 .. MaxUsage, ApplyUsage(p, q) PROVE UsageInv'
  <2>1. Does(p, "usage", "locked") /\ job[p].bal = data /\ job[p] # NoJob
    BY <1>9 DEF ApplyUsage, UsageInv, LockedIsCurrent, Does
  <2>2. Consumed(data, q) \in Nat /\ data.consumed \in Nat /\ used \in Nat /\ spilled \in Nat
    BY ConsumedBound DEF TypeOK, Balance
  <2>3. /\ data'.consumed = Consumed(data, q)
        /\ used' = used + q
        /\ spilled' = spilled + (q - (Consumed(data, q) - data.consumed))
    BY <1>9, <2>1 DEF ApplyUsage, TypeOK, Balance
  <2>4. UsageConserved'
    BY <2>2, <2>3 DEF UsageInv, UsageConserved
  <2>5. Ends(p) /\ \A r \in Process \ {p} : ~Does(r, "usage", "locked")
    BY <1>9, <2>1 DEF ApplyUsage, UsageInv, LockExclusive
  <2>6. ~Does(p, "usage", "locked")'
    BY <2>5, EndsQuiet DEF Does
  <2>. QED BY <2>4, <2>5, <2>6, EndsQuiet, UsageQuiet
<1>10. CASE SchedulePlanChange(p) \/ CancelPendingPlanChange(p) \/ MigrateToPrice(p) \/ Terminate(p)
  BY <1>0, <1>10, UsageEnds DEF SchedulePlanChange, CancelPendingPlanChange, MigrateToPrice, Terminate, Writes
<1>. QED BY <1>1, <1>2, <1>3, <1>4, <1>5, <1>6, <1>7, <1>8, <1>9, <1>10 DEF Proceed

LEMMA UsageStep == TypeOK /\ UsageInv /\ [Next]_vars => UsageInv'
<1> SUFFICES ASSUME TypeOK, UsageInv, [Next]_vars PROVE UsageInv'
  OBVIOUS
<1> USE DEF history
<1>1. CASE UNCHANGED <<job, data, used, spilled>>
  BY <1>1 DEF UsageInv, UsageConserved, LockExclusive, LockedIsCurrent, Does
<1>2. ASSUME NEW w \in Process, SweepDue(w) \/ SweepSkipped(w) PROVE UsageInv'
  <2>1. "renew" \in Op
    BY DEF Op
  <2>. QED BY <1>1, <1>2, <2>1, UsageBegins DEF SweepDue, SweepSkipped, MarkAttempted
<1>3. ASSUME NEW r \in Request, NEW op \in Op, Begin(r, op) PROVE UsageInv'
  <2>1. r \in Process
    BY DEF Process
  <2>. QED BY <1>3, <2>1, UsageBegins DEF Begin
<1>4. ASSUME NEW p \in Process, Crash(p) PROVE UsageInv'
  <2>1. UsageConserved' /\ data' = data
    BY <1>4 DEF Crash, UsageInv, UsageConserved
  <2>. QED BY <1>4, <2>1, UsageEnds DEF Crash
<1>5. Tick \/ UNCHANGED vars => UNCHANGED <<job, data, used, spilled>>
  BY DEF Tick, vars
<1>. QED BY <1>1, <1>2, <1>3, <1>4, <1>5, NextCases, UsageProceeds

(* No usage of a period is lost or counted twice: usage.rated works under the
   lock of the balance row, and the renewal's reset and a top-up wait for it. *)
THEOREM UsageIsConserved == Spec => []UsageConserved
<1>1. Init => UsageInv
  BY DEF Init, UsageInv, UsageConserved, LockExclusive, LockedIsCurrent, Does
<1>2. UsageInv => UsageConserved
  BY DEF UsageInv
<1>. QED BY <1>1, <1>2, UsageStep, TypeCorrect, PTL DEF Spec

-----------------------------------------------------------------------------
(* Charges and grants. *)

(* The processes with an approved charge in hand that they have not applied. *)
InHand == {p \in Process : job[p] # NoJob /\ job[p].at \in {"charged", "totals"}}

PaidInv == IsFiniteSet(InHand) /\ Cardinality(InHand) <= unapplied

LEMMA PaidQuiet ==
  ASSUME TypeOK, PaidInv, InHand' \subseteq InHand, unapplied' = unapplied
  PROVE  PaidInv'
<1>1. IsFiniteSet(InHand') /\ Cardinality(InHand') <= Cardinality(InHand)
  BY FS_Subset DEF PaidInv
<1>2. Cardinality(InHand') \in Nat /\ Cardinality(InHand) \in Nat
  BY <1>1, FS_CardinalityType DEF PaidInv
<1>. QED BY <1>1, <1>2 DEF PaidInv, TypeOK

LEMMA PaidMore ==
  ASSUME TypeOK, PaidInv, NEW p \in Process, InHand' \subseteq InHand \union {p},
         unapplied' = unapplied + 1
  PROVE  PaidInv'
<1>1. IsFiniteSet(InHand \union {p}) /\ Cardinality(InHand \union {p}) <= Cardinality(InHand) + 1
  <2>1. IsFiniteSet(InHand) /\ Cardinality(InHand) \in Nat
    BY FS_CardinalityType DEF PaidInv
  <2>2. /\ IsFiniteSet(InHand \union {p})
        /\ Cardinality(InHand \union {p}) = IF p \in InHand THEN Cardinality(InHand) ELSE Cardinality(InHand) + 1
    BY <2>1, FS_AddElement
  <2>. QED BY <2>1, <2>2
<1>2. IsFiniteSet(InHand') /\ Cardinality(InHand') <= Cardinality(InHand \union {p})
  BY <1>1, FS_Subset
<1>3. /\ Cardinality(InHand') \in Nat /\ Cardinality(InHand) \in Nat
      /\ Cardinality(InHand \union {p}) \in Nat
  BY <1>1, <1>2, FS_CardinalityType DEF PaidInv
<1>. QED BY <1>1, <1>2, <1>3 DEF PaidInv, TypeOK

LEMMA PaidLess ==
  ASSUME TypeOK, PaidInv, NEW p \in InHand, InHand' \subseteq InHand \ {p},
         unapplied' = unapplied - 1
  PROVE  PaidInv'
<1>1. IsFiniteSet(InHand \ {p}) /\ Cardinality(InHand \ {p}) = Cardinality(InHand) - 1
  BY FS_RemoveElement DEF PaidInv
<1>2. IsFiniteSet(InHand') /\ Cardinality(InHand') <= Cardinality(InHand \ {p})
  BY <1>1, FS_Subset
<1>3. Cardinality(InHand') \in Nat /\ Cardinality(InHand) \in Nat
  BY <1>2, FS_CardinalityType DEF PaidInv
<1>. QED BY <1>1, <1>2, <1>3 DEF PaidInv, TypeOK

(* Whoever ends has nothing in hand, and whoever starts has nothing yet. *)
LEMMA InHandMoves ==
  ASSUME TypeOK, NEW p \in Process, \A q \in Process \ {p} : job'[q] = job[q]
  PROVE  /\ InHand' \subseteq InHand \union {p}
         /\ ~(job'[p] # NoJob /\ job'[p].at \in {"charged", "totals"}) => InHand' \subseteq InHand \ {p}
  BY DEF InHand

LEMMA PaidEnds ==
  ASSUME TypeOK, PaidInv, NEW p \in Process, Ends(p),
         \/ unapplied' = unapplied
         \/ unapplied' = unapplied + 1
         \/ p \in InHand /\ unapplied' = unapplied - 1
  PROVE  PaidInv'
<1>1. InHand' \subseteq InHand \ {p}
  BY EndsQuiet, InHandMoves
<1>2. InHand' \subseteq InHand /\ InHand' \subseteq InHand \union {p}
  BY <1>1
<1>3. CASE unapplied' = unapplied
  BY <1>2, <1>3, PaidQuiet
<1>4. CASE unapplied' = unapplied + 1
  BY <1>2, <1>4, PaidMore
<1>5. CASE p \in InHand /\ unapplied' = unapplied - 1
  BY <1>1, <1>5, PaidLess
<1>. QED BY <1>3, <1>4, <1>5

LEMMA PaidStarts ==
  ASSUME TypeOK, PaidInv, NEW p \in Process, NEW op \in Op, NEW at \in {"marked", "read"}, NEW clock,
         Starts(p, op, at, clock), unapplied' = unapplied
  PROVE  PaidInv'
<1>1. job'[p].at \notin {"charged", "totals"} /\ \A q \in Process \ {p} : job'[q] = job[q]
  BY StartsQuiet
<1>2. InHand' \subseteq InHand \ {p}
  BY <1>1, InHandMoves
<1>. QED BY <1>2, PaidQuiet

LEMMA PaidProceeds ==
  ASSUME TypeOK, PaidInv, NEW p \in Process, Proceed(p)
  PROVE  PaidInv'
<1> USE DEF history
<1>1. CASE Dispatch(p)
  <2>1. "renew" \in Op
    BY DEF Op
  <2>. QED BY <1>1, <2>1, PaidStarts, PaidEnds DEF Dispatch, Calls
<1>2. CASE Abandon(p) \/ RenewRefused(p) \/ RenewDeclined(p)
  BY <1>2, PaidEnds DEF Abandon, RenewRefused, RenewDeclined
<1>3. CASE Charge(p)
  <2>0. job[p] # NoJob
    BY <1>3 DEF Charge, Does
  <2>1. CASE Approve(p) /\ Goes(p, "charged")
    <3>1. \A q \in Process \ {p} : job'[q] = job[q]
      BY <2>0, <2>1, GoesQuiet
    <3>2. InHand' \subseteq InHand \union {p}
      BY <3>1, InHandMoves
    <3>. QED BY <2>1, <3>2, PaidMore DEF Approve
  <2>2. CASE Approve(p) /\ Ends(p)
    BY <2>2, PaidEnds DEF Approve
  <2>3. CASE UNCHANGED history /\ Ends(p)
    BY <2>3, PaidEnds
  <2>4. CASE UNCHANGED history /\ Goes(p, "declined")
    <3>1. job'[p].at \notin {"charged", "totals"} /\ \A q \in Process \ {p} : job'[q] = job[q]
      BY <2>0, <2>4, GoesQuiet
    <3>2. InHand' \subseteq InHand \ {p}
      BY <3>1, InHandMoves
    <3>. QED BY <2>4, <3>2, PaidQuiet
  <2>. QED BY <1>3, <2>1, <2>2, <2>3, <2>4 DEF Charge
<1>4. CASE RenewApproved(p)
  <2>1. p \in InHand
    BY <1>4 DEF RenewApproved, Does, InHand
  <2>. QED BY <1>4, <2>1, PaidEnds DEF RenewApproved, Renews, Grant
<1>5. CASE ReadTotals(p)
  <2>1. p \in InHand /\ \A q \in Process \ {p} : job'[q] = job[q]
    BY <1>5 DEF ReadTotals, Does, InHand, TypeOK
  <2>2. InHand' \subseteq InHand
    BY <2>1, InHandMoves
  <2>. QED BY <1>5, <2>2, PaidQuiet DEF ReadTotals
<1>6. CASE ApplyTopUp(p)
  <2>1. p \in InHand
    BY <1>6 DEF ApplyTopUp, Does, InHand
  <2>. QED BY <1>6, <2>1, PaidEnds DEF ApplyTopUp, Grant
<1>7. CASE LockBalance(p)
  <2>1. job'[p].at = "locked" /\ \A q \in Process \ {p} : job'[q] = job[q]
    BY <1>7, JobFacts DEF LockBalance, Does, Job, TypeOK
  <2>2. InHand' \subseteq InHand \ {p}
    BY <2>1, InHandMoves
  <2>. QED BY <1>7, <2>2, PaidQuiet DEF LockBalance
<1>8. ASSUME NEW q \in 1 .. MaxUsage, ApplyUsage(p, q) PROVE PaidInv'
  BY <1>8, PaidEnds DEF ApplyUsage
<1>9. CASE SchedulePlanChange(p) \/ CancelPendingPlanChange(p) \/ MigrateToPrice(p) \/ Terminate(p)
  BY <1>9, PaidEnds DEF SchedulePlanChange, CancelPendingPlanChange, MigrateToPrice, Terminate, Writes
<1>. QED BY <1>1, <1>2, <1>3, <1>4, <1>5, <1>6, <1>7, <1>8, <1>9 DEF Proceed

LEMMA PaidStep == TypeOK /\ PaidInv /\ [Next]_vars => PaidInv'
<1> SUFFICES ASSUME TypeOK, PaidInv, [Next]_vars PROVE PaidInv'
  OBVIOUS
<1> USE DEF history
<1>1. CASE UNCHANGED <<job, unapplied>>
  BY <1>1, PaidQuiet DEF InHand
<1>2. ASSUME NEW w \in Process, SweepDue(w) \/ SweepSkipped(w) PROVE PaidInv'
  <2>1. "renew" \in Op
    BY DEF Op
  <2>. QED BY <1>1, <1>2, <2>1, PaidStarts DEF SweepDue, SweepSkipped, MarkAttempted
<1>3. ASSUME NEW r \in Request, NEW op \in Op, Begin(r, op) PROVE PaidInv'
  <2>1. r \in Process
    BY DEF Process
  <2>. QED BY <1>3, <2>1, PaidStarts DEF Begin
<1>4. ASSUME NEW p \in Process, Crash(p) PROVE PaidInv'
  BY <1>4, PaidEnds DEF Crash
<1>5. Tick \/ UNCHANGED vars => UNCHANGED <<job, unapplied>>
  BY DEF Tick, vars
<1>. QED BY <1>1, <1>2, <1>3, <1>4, <1>5, NextCases, PaidProceeds

(* No renewal and no top-up without an approved charge of its own: the grants
   applied never outnumber the approvals. *)
THEOREM NoGrantUnpaid == Spec => []GrantedWasPaid
<1>1. Init => PaidInv
  <2> SUFFICES ASSUME Init PROVE PaidInv
    OBVIOUS
  <2>1. InHand = {}
    BY DEF Init, InHand
  <2>. QED BY <2>1, FS_EmptySet DEF Init, PaidInv
<1>2. TypeOK /\ PaidInv => GrantedWasPaid
  BY FS_CardinalityType DEF PaidInv, GrantedWasPaid, TypeOK
<1>. QED BY <1>1, <1>2, PaidStep, TypeCorrect, PTL DEF Spec

-----------------------------------------------------------------------------
(* The promised discount. *)

Renewing(p) == job[p] # NoJob /\ job[p].op = "renew"

SoleRenewal == \A p, q \in Process : Renewing(p) /\ Renewing(q) => p = q

(* The worker's mark keeps further renewals out until this one moves the due date. *)
RenewalIsMarked == \A p \in Process : Renewing(p) => sub.due <= sub.attempted

DiscountIsCurrent ==
  \A p \in Process : Renewing(p) /\ job[p].at # "marked" => job[p].read.discount = sub.discount

(* What is left on the row is still to be charged, by nobody's renewal yet. *)
BudgetLeft ==
  /\ discounted <= Discount
  /\ sub.attempted < sub.due => discounted + sub.discount <= Discount
  /\ \A p \in Process : Renewing(p) /\ job[p].at \in {"marked", "read"} => discounted + sub.discount <= Discount
  /\ \A p \in Process : Renewing(p) /\ job[p].at = "charged" => discounted + sub.discount <= Discount + 1

SerialInv == SoleRenewal /\ RenewalIsMarked /\ DiscountIsCurrent /\ BudgetLeft

DiscountInv == ~byHand => SerialInv

LEMMA DiscountTypes ==
  ASSUME TypeOK
  PROVE  /\ discounted \in Nat /\ sub.discount \in Nat /\ Discount \in Nat
         /\ sub.due \in Nat /\ sub.attempted \in Nat /\ now \in Nat
  BY SubscriptionAssumption, DateFacts DEF TypeOK, Row

(* A step of somebody who is not renewing afterwards and leaves the row's renewal
   columns alone. *)
LEMMA SerialQuiet ==
  ASSUME SerialInv, NEW p \in Process, \A q \in Process \ {p} : job'[q] = job[q], ~Renewing(p)',
         discounted' = discounted, sub'.due = sub.due, sub'.attempted = sub.attempted,
         sub'.discount = sub.discount
  PROVE  SerialInv'
<1>1. \A q \in Process : Renewing(q)' => q # p /\ Renewing(q) /\ job'[q] = job[q]
  BY DEF Renewing
<1>2. SoleRenewal' /\ RenewalIsMarked' /\ DiscountIsCurrent'
  BY <1>1 DEF SerialInv, SoleRenewal, RenewalIsMarked, DiscountIsCurrent
<1>3. BudgetLeft'
  BY <1>1 DEF SerialInv, BudgetLeft
<1>. QED BY <1>2, <1>3 DEF SerialInv

(* The step of the only renewal there is. *)
LEMMA SoleMoves ==
  ASSUME SerialInv, NEW p \in Process, Renewing(p), \A q \in Process \ {p} : job'[q] = job[q]
  PROVE  \A q \in Process : Renewing(q)' => q = p
  BY DEF SerialInv, SoleRenewal, Renewing

LEMMA SerialEnds ==
  ASSUME TypeOK, SerialInv, NEW p \in Process, Ends(p), discounted' = discounted, sub'.due = sub.due,
         sub'.attempted = sub.attempted, sub'.discount = sub.discount
  PROVE  SerialInv'
<1>1. ~Renewing(p)' /\ \A q \in Process \ {p} : job'[q] = job[q]
  BY EndsQuiet DEF Renewing
<1>. QED BY <1>1, SerialQuiet

LEMMA SerialSweeps ==
  ASSUME TypeOK, SerialInv, NEW w \in Process, SweepDue(w) \/ SweepSkipped(w)
  PROVE  SerialInv'
<1>1. sub.attempted < sub.due /\ sub.due <= now /\ MarkAttempted
  BY DEF SweepDue, SweepSkipped, Overdue, Unattempted
<1>2. /\ sub'.attempted = now /\ sub'.due = sub.due /\ sub'.discount = sub.discount
      /\ discounted' = discounted
  BY <1>1 DEF MarkAttempted, TypeOK, Row
<1>3. discounted <= Discount /\ discounted + sub.discount <= Discount
  BY <1>1 DEF SerialInv, BudgetLeft
<1>4. \A q \in Process : ~Renewing(q)
  BY <1>1, DiscountTypes DEF SerialInv, RenewalIsMarked
<1>5. \A q \in Process : Renewing(q)' => q = w /\ job'[q].at = "marked"
  <2>1. CASE SweepDue(w)
    <3>1. "renew" \in Op
      BY DEF Op
    <3>. QED BY <1>4, <2>1, <3>1, StartsQuiet DEF SweepDue, Renewing
  <2>2. CASE SweepSkipped(w)
    BY <1>4, <2>2 DEF SweepSkipped, Renewing
  <2>. QED BY <2>1, <2>2
<1>6. SoleRenewal' /\ RenewalIsMarked' /\ DiscountIsCurrent'
  BY <1>1, <1>2, <1>5 DEF SoleRenewal, RenewalIsMarked, DiscountIsCurrent
<1>7. BudgetLeft'
  BY <1>1, <1>2, <1>3, <1>5, DiscountTypes DEF BudgetLeft
<1>. QED BY <1>6, <1>7 DEF SerialInv

LEMMA SerialDispatch ==
  ASSUME TypeOK, SerialInv, NEW p \in Process, Dispatch(p)
  PROVE  SerialInv'
<1>1. Renewing(p) /\ job[p].at = "marked" /\ UNCHANGED <<sub, discounted>>
  BY DEF Dispatch, Calls, Does, Renewing, history
<1>2. CASE Ends(p)
  BY <1>1, <1>2, SerialEnds
<1>3. CASE Starts(p, "renew", "read", now)
  <2>1. "renew" \in Op
    BY DEF Op
  <2>2. \A q \in Process : Renewing(q)' => q = p
    BY <1>1, <1>3, <2>1, StartsQuiet, SoleMoves
  <2>3. job'[p].at = "read" /\ job'[p].read = sub
    BY <1>3, <2>1, StartsQuiet
  <2>4. SoleRenewal' /\ RenewalIsMarked' /\ DiscountIsCurrent'
    BY <1>1, <2>2, <2>3 DEF SerialInv, SoleRenewal, RenewalIsMarked, DiscountIsCurrent
  <2>5. BudgetLeft'
    BY <1>1, <2>2, <2>3, DiscountTypes DEF SerialInv, BudgetLeft
  <2>. QED BY <2>4, <2>5 DEF SerialInv
<1>. QED BY <1>2, <1>3 DEF Dispatch, Calls

LEMMA SerialRenewalCharge ==
  ASSUME TypeOK, SerialInv, NEW p \in Process, Does(p, "renew", "read"), Charge(p)
  PROVE  SerialInv'
<1>1. Renewing(p) /\ job[p].at = "read" /\ job[p] # NoJob /\ UNCHANGED sub
  BY DEF Charge, Does, Renewing
<1>2. \/ Approve(p) /\ Goes(p, "charged")
      \/ Approve(p) /\ Ends(p)
      \/ discounted' = discounted /\ Goes(p, "declined")
  BY DEF Charge, Does, history
<1>3. /\ \A q \in Process \ {p} : job'[q] = job[q]
      /\ Renewing(p)' => /\ job'[p].at \in {"charged", "declined"}
                         /\ job'[p].read = job[p].read
  BY <1>1, <1>2, EndsQuiet, GoesQuiet DEF Renewing
<1>4. \A q \in Process : Renewing(q)' => q = p
  BY <1>1, <1>3, SoleMoves
<1>5. /\ job[p].read.discount = sub.discount /\ sub.due <= sub.attempted
      /\ discounted + sub.discount <= Discount
  BY <1>1 DEF SerialInv, DiscountIsCurrent, RenewalIsMarked, BudgetLeft
<1>6. /\ discounted' <= Discount
      /\ discounted' + sub.discount <= Discount + 1
  <2>1. Discounts(job[p]) => sub.discount # 0
    BY <1>5 DEF Discounts
  <2>2. \/ discounted' = discounted
        \/ Discounts(job[p]) /\ discounted' = discounted + 1
    BY <1>2 DEF Approve
  <2>. QED BY <1>5, <2>1, <2>2, DiscountTypes
<1>7. SoleRenewal' /\ RenewalIsMarked' /\ DiscountIsCurrent'
  BY <1>1, <1>3, <1>4, <1>5 DEF SoleRenewal, RenewalIsMarked, DiscountIsCurrent
<1>8. BudgetLeft'
  BY <1>1, <1>3, <1>4, <1>5, <1>6, DiscountTypes DEF BudgetLeft
<1>. QED BY <1>7, <1>8 DEF SerialInv

LEMMA SerialTopUpCharge ==
  ASSUME TypeOK, SerialInv, NEW p \in Process, Does(p, "vas", "read"), Charge(p)
  PROVE  SerialInv'
<1>1. job[p] # NoJob /\ job[p].op = "vas" /\ UNCHANGED sub
  BY DEF Charge, Does
<1>2. discounted' = discounted /\ (Goes(p, "charged") \/ Ends(p))
  BY <1>1 DEF Charge, Does, Approve, Discounts, history
<1>3. ~Renewing(p)' /\ \A q \in Process \ {p} : job'[q] = job[q]
  BY <1>1, <1>2, EndsQuiet, GoesQuiet DEF Renewing
<1>. QED BY <1>1, <1>2, <1>3, SerialQuiet

LEMMA SerialApproved ==
  ASSUME TypeOK, SerialInv, NEW p \in Process, RenewApproved(p)
  PROVE  SerialInv'
<1>1. /\ Renewing(p) /\ job[p].at = "charged" /\ job[p] # NoJob
      /\ Ends(p) /\ sub' = Renewed(job[p]) /\ discounted' = discounted
  BY DEF RenewApproved, Renews, Does, Renewing, Grant
<1>2. \A q \in Process : ~Renewing(q)'
  <2>1. ~Renewing(p)' /\ \A q \in Process \ {p} : job'[q] = job[q]
    BY <1>1, EndsQuiet DEF Renewing
  <2>. QED BY <1>1, <2>1, SoleMoves
<1>3. /\ job[p].read.discount = sub.discount /\ discounted <= Discount
      /\ discounted + sub.discount <= Discount + 1
  BY <1>1 DEF SerialInv, DiscountIsCurrent, BudgetLeft
<1>4. \/ sub'.discount = 0
      \/ sub.discount > 0 /\ sub'.discount = sub.discount - 1
  <2>1. sub'.discount = 0 \/ sub'.discount = Remaining(job[p])
    BY <1>1 DEF Renewed, TypeOK, Row
  <2>2. Remaining(job[p]) = IF sub.discount > 0 THEN sub.discount - 1 ELSE 0
    BY <1>3 DEF Remaining
  <2>. QED BY <2>1, <2>2, DiscountTypes
<1>5. discounted + sub'.discount <= Discount
  BY <1>3, <1>4, DiscountTypes
<1>6. SoleRenewal' /\ RenewalIsMarked' /\ DiscountIsCurrent'
  BY <1>2 DEF SoleRenewal, RenewalIsMarked, DiscountIsCurrent
<1>7. BudgetLeft'
  BY <1>1, <1>2, <1>3, <1>5 DEF BudgetLeft
<1>. QED BY <1>6, <1>7 DEF SerialInv

LEMMA SerialProceeds ==
  ASSUME TypeOK, SerialInv, NEW p \in Process, Proceed(p)
  PROVE  SerialInv'
<1> USE DEF history
<1>0. sub \in Row
  BY DEF TypeOK
<1>1. CASE Abandon(p) \/ RenewRefused(p)
  BY <1>1, SerialEnds DEF Abandon, RenewRefused
<1>2. CASE Charge(p)
  BY <1>2, SerialRenewalCharge, SerialTopUpCharge DEF Charge
<1>3. CASE RenewDeclined(p)
  <2>1. sub'.due = sub.due /\ sub'.attempted = sub.attempted /\ sub'.discount = sub.discount
    BY <1>0, <1>3 DEF RenewDeclined, Row
  <2>. QED BY <1>3, <2>1, SerialEnds DEF RenewDeclined
<1>4. CASE ReadTotals(p) \/ LockBalance(p)
  <2>1. /\ job'[p].op \in {"vas", "usage"} /\ \A q \in Process \ {p} : job'[q] = job[q]
        /\ UNCHANGED <<sub, discounted>>
    BY <1>4, JobFacts DEF ReadTotals, LockBalance, Does, Job, TypeOK
  <2>2. ~Renewing(p)'
    BY <2>1 DEF Renewing
  <2>. QED BY <2>1, <2>2, SerialQuiet
<1>5. CASE ApplyTopUp(p)
  <2>1. sub'.due = sub.due /\ sub'.attempted = sub.attempted /\ sub'.discount = sub.discount
    BY <1>0, <1>5 DEF ApplyTopUp, Row
  <2>. QED BY <1>5, <2>1, SerialEnds DEF ApplyTopUp, Grant
<1>6. ASSUME NEW q \in 1 .. MaxUsage, ApplyUsage(p, q) PROVE SerialInv'
  <2>1. sub'.due = sub.due /\ sub'.attempted = sub.attempted /\ sub'.discount = sub.discount
    BY <1>0, <1>6 DEF ApplyUsage, Row
  <2>. QED BY <1>6, <2>1, SerialEnds DEF ApplyUsage
<1>7. CASE SchedulePlanChange(p) \/ CancelPendingPlanChange(p) \/ MigrateToPrice(p) \/ Terminate(p)
  <2>1. sub'.due = sub.due /\ sub'.attempted = sub.attempted /\ sub'.discount = sub.discount
    BY <1>0, <1>7 DEF SchedulePlanChange, CancelPendingPlanChange, MigrateToPrice, Terminate, Writes, Row
  <2>2. Ends(p) /\ discounted' = discounted
    BY <1>7 DEF SchedulePlanChange, CancelPendingPlanChange, MigrateToPrice, Terminate, Writes
  <2>. QED BY <2>1, <2>2, SerialEnds
<1>. QED BY <1>1, <1>2, <1>3, <1>4, <1>5, <1>6, <1>7, SerialDispatch, SerialApproved DEF Proceed

LEMMA ByHandStays ==
  ASSUME TypeOK, [Next]_vars
  PROVE  byHand => byHand'
<1> USE DEF history
<1>1. ASSUME NEW p \in Process, Proceed(p) PROVE byHand' = byHand
  BY <1>1 DEF Proceed, Dispatch, Abandon, Charge, Approve, RenewApproved, Renews, Grant, RenewRefused,
              RenewDeclined, ReadTotals, ApplyTopUp, LockBalance, ApplyUsage, SchedulePlanChange,
              CancelPendingPlanChange, MigrateToPrice, Terminate, Writes
<1>2. ASSUME NEW w \in Process, SweepDue(w) \/ SweepSkipped(w) PROVE byHand' = byHand
  BY <1>2 DEF SweepDue, SweepSkipped, MarkAttempted
<1>3. ASSUME NEW r \in Request, NEW op \in Op, Begin(r, op) PROVE byHand => byHand'
  BY <1>3 DEF Begin
<1>4. Tick \/ UNCHANGED vars \/ (\E p \in Process : Crash(p)) => byHand' = byHand
  BY DEF Tick, vars, Crash
<1>5. CASE Next
  BY <1>1, <1>2, <1>3, <1>4, <1>5, NextCases
<1>. QED BY <1>4, <1>5

LEMMA DiscountStep == TypeOK /\ DiscountInv /\ [Next]_vars => DiscountInv'
<1> SUFFICES ASSUME TypeOK, DiscountInv, [Next]_vars, ~byHand' PROVE SerialInv'
  BY DEF DiscountInv
<1> USE DEF history
<1>0. SerialInv
  BY ByHandStays DEF DiscountInv
<1>1. CASE UNCHANGED <<job, sub, discounted>>
  BY <1>0, <1>1 DEF SerialInv, SoleRenewal, RenewalIsMarked, DiscountIsCurrent, BudgetLeft, Renewing
<1>2. ASSUME NEW r \in Request, NEW op \in Op, Begin(r, op) PROVE SerialInv'
  <2>1. r \in Process /\ op # "renew" /\ UNCHANGED <<sub, discounted>>
    BY <1>2 DEF Begin, Process
  <2>2. ~Renewing(r)' /\ \A q \in Process \ {r} : job'[q] = job[q]
    BY <1>2, <2>1, StartsQuiet DEF Begin, Renewing
  <2>. QED BY <1>0, <2>1, <2>2, SerialQuiet
<1>3. ASSUME NEW p \in Process, Crash(p) PROVE SerialInv'
  BY <1>0, <1>3, SerialEnds DEF Crash
<1>4. Tick \/ UNCHANGED vars => UNCHANGED <<job, sub, discounted>>
  BY DEF Tick, vars
<1>. QED BY <1>0, <1>1, <1>2, <1>3, <1>4, NextCases, SerialSweeps, SerialProceeds

(* While the worker alone renews, no more periods are charged at the promotional
   price than were promised: its mark makes the renewals of one subscription
   follow one another, so that each reads the counter the last one wrote. *)
THEOREM DiscountIsBudgeted == Spec => []DiscountWithinBudget
<1>1. Init => DiscountInv
  <2> SUFFICES ASSUME Init PROVE SerialInv
    BY DEF DiscountInv
  <2>1. \A p \in Process : ~Renewing(p)
    BY DEF Init, Renewing
  <2>2. discounted = 0 /\ sub.discount = Discount /\ Discount \in Nat
    BY SubscriptionAssumption DEF Init
  <2>. QED BY <2>1, <2>2 DEF SerialInv, SoleRenewal, RenewalIsMarked, DiscountIsCurrent, BudgetLeft
<1>2. DiscountInv => DiscountWithinBudget
  BY DEF DiscountInv, SerialInv, BudgetLeft, DiscountWithinBudget
<1>. QED BY <1>1, <1>2, DiscountStep, TypeCorrect, PTL DEF Spec
=============================================================================
