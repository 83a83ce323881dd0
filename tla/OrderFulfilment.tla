--------------------------- MODULE OrderFulfilment ---------------------------
(***************************************************************************)
(* A commercial order from submit to active subscription, across COM       *)
(* (services/com), SOM (services/som), the provisioning simulator, the     *)
(* number and eSIM pools of CRM and subscription.create.                   *)
(*                                                                         *)
(* HTTP handlers read, call other services and then write, without a lock: *)
(* each such handler is a read step and a commit step of a Caller.         *)
(* Consumers hold a row lock while they run: each is one step, cut where   *)
(* it changes another service over HTTP before its own commit.             *)
(*                                                                         *)
(* Events between COM and SOM go through the outbox and take effect at     *)
(* most once, in any order (module Outbox).  Task results are published    *)
(* inline without a message id, so a redelivery is handled again.          *)
(***************************************************************************)
EXTENDS Naturals, FiniteSets

CONSTANTS
    Order,        \* product orders
    Caller,       \* HTTP requests that can be in progress at one time
    Task,         \* TASK_TYPES
    Number, Sim,  \* the MSISDN and eSIM pools
    Outcomes,     \* how a task may end under the enabled fault rules
    NumJobs,      \* bound: order.in_progress events, and so service orders
    MaxRetries,   \* retry budget of a safe consumer
    MaxFaults     \* bound: crashes, failed commits, redeliveries

ASSUME FulfilmentAssumption ==
    /\ NumJobs \in Nat
    /\ MaxRetries \in Nat
    /\ MaxFaults \in Nat
    /\ Outcomes \subseteq {"completed", "failed", "stuck"}
    /\ Number \intersect Sim = {}

Job == 1 .. NumJobs
Item == Number \union Sim
Verdict == Job \X {"completed", "failed"}

CONSTANTS NoOrder, NoCall
ASSUME NoneAssumption == NoOrder \notin Order

VARIABLES
    order,      \* order_mgmt.product_order.state
    call,       \* what each HTTP request has read and is about to write
    request,    \* the order whose order.in_progress event a job is
    so,         \* the job: event, service order, or parked event
    items,      \* MSISDN and eSIM the decomposition reserved for a job
    tries,      \* failed attempts at the job's current event
    cfs,        \* state of the job's customer-facing service
    pending,    \* its characteristics.pendingTasks
    stock,      \* msisdn_pool.status and esim_profile.profile_state
    todo,       \* provisioning.task.created events not processed yet
    stuckRows,  \* provisioning_task rows in state stuck
    done,       \* tasks the network completed (history)
    results,    \* provisioning.task.{completed,failed,stuck} on their way
    verdict,    \* service_order.{completed,failed} events
    created,    \* COM holds the order's row lock, subscription.create returned
    subs,       \* jobs whose number an active subscription uses
    charges,    \* approved activation charges of an order
    declined,   \* orders with a declined activation charge (history)
    faults

comVars == <<order, call>>
somVars == <<request, so, items, tries, cfs, pending>>
simVars == <<todo, stuckRows, done>>
subVars == <<subs, charges, declined>>
vars == <<comVars, somVars, stock, simVars, results, verdict, created, subVars, faults>>

OrderState == {"absent", "acknowledged", "in_progress", "completed", "failed", "cancelled"}
Call == [op : {"submit", "ask", "cancel"}, on : Order] \union [op : {"resolve"}, on : Job \X Task]
Result == [kind : {"completed", "failed", "stuck"}, job : Job, task : Task, known : BOOLEAN]

TypeOK ==
    /\ order \in [Order -> OrderState]
    /\ call \in [Caller -> Call \union {NoCall}]
    /\ request \in [Job -> Order \union {NoOrder}]
    /\ so \in [Job -> {"none", "requested", "in_progress", "completed", "failed", "parked"}]
    /\ items \in [Job -> SUBSET Item]
    /\ tries \in [Job -> 0 .. MaxRetries]
    /\ cfs \in [Job -> {"none", "reserved", "activated", "failed"}]
    /\ pending \in [Job -> [Task -> {"none", "pending", "completed", "failed", "stuck"}]]
    /\ stock \in [Item -> {"available", "reserved", "assigned"}]
    /\ todo \subseteq Job \X Task
    /\ stuckRows \subseteq Job \X Task
    /\ done \subseteq Job \X Task
    /\ results \subseteq Result
    /\ verdict \in [Verdict -> {"none", "staged", "heard", "parked"}]
    /\ created \subseteq Job
    /\ subs \subseteq Job
    /\ charges \in [Order -> Nat]
    /\ declined \subseteq Order
    /\ faults \in Nat

Init ==
    /\ order = [o \in Order |-> "absent"]
    /\ call = [c \in Caller |-> NoCall]
    /\ request = [j \in Job |-> NoOrder]
    /\ so = [j \in Job |-> "none"]
    /\ items = [j \in Job |-> {}]
    /\ tries = [j \in Job |-> 0]
    /\ cfs = [j \in Job |-> "none"]
    /\ pending = [j \in Job |-> [t \in Task |-> "none"]]
    /\ stock = [x \in Item |-> "available"]
    /\ todo = {} /\ stuckRows = {} /\ done = {} /\ results = {}
    /\ verdict = [v \in Verdict |-> "none"]
    /\ created = {}
    /\ subs = {} /\ declined = {}
    /\ charges = [o \in Order |-> 0]
    /\ faults = 0

Fault == faults < MaxFaults /\ faults' = faults + 1

-----------------------------------------------------------------------------
(* COM's HTTP write paths. *)

(* get_for_update's row lock, held while subscription.create is called. *)
Locked(o) == \E j \in created : request[j] = o

CreateOrder(o) ==
    /\ order[o] = "absent"
    /\ order' = [order EXCEPT ![o] = "acknowledged"]
    /\ UNCHANGED <<call, somVars, stock, simVars, results, verdict, created, subVars, faults>>

Calls(c, op, on) == call' = [call EXCEPT ![c] = [op |-> op, on |-> on]]
Hangs(c) == call' = [call EXCEPT ![c] = NoCall]

(* submit_order: the transition is checked on an unlocked read, then
   payment.list_methods is called. *)
BeginSubmit(c, o) ==
    /\ call[c] = NoCall
    /\ order[o] = "acknowledged"
    /\ Calls(c, "submit", o)
    /\ UNCHANGED <<order, somVars, stock, simVars, results, verdict, created, subVars, faults>>

FirstUnused(j) == so[j] = "none" /\ \A i \in 1 .. (j - 1) : so[i] # "none"

(* UPDATE ... SET state='in_progress' WHERE id, and the staged event. *)
CommitSubmit(c, j) ==
    /\ call[c] # NoCall /\ call[c].op = "submit"
    /\ ~Locked(call[c].on)
    /\ FirstUnused(j)
    /\ order' = [order EXCEPT ![call[c].on] = "in_progress"]
    /\ request' = [request EXCEPT ![j] = call[c].on]
    /\ so' = [so EXCEPT ![j] = "requested"]
    /\ Hangs(c)
    /\ UNCHANGED <<items, tries, cfs, pending, stock, simVars, results, verdict, created, subVars, faults>>

BeginCancel(c, o) ==
    /\ call[c] = NoCall
    /\ \/ order[o] = "acknowledged" /\ Calls(c, "cancel", o)
       \/ order[o] = "in_progress" /\ Calls(c, "ask", o)
    /\ UNCHANGED <<order, somVars, stock, simVars, results, verdict, created, subVars, faults>>

(* check_cancel_allowed_after_som: SOM lists committed service orders, and
   decomposition commits them in_progress. *)
AskSom(c) ==
    /\ call[c] # NoCall /\ call[c].op = "ask"
    /\ \A j \in Job : request[j] = call[c].on => so[j] \in {"requested", "parked"}
    /\ Calls(c, "cancel", call[c].on)
    /\ UNCHANGED <<order, somVars, stock, simVars, results, verdict, created, subVars, faults>>

Cancelled(c, state) ==
    /\ call[c] # NoCall /\ call[c].op = "cancel"
    /\ ~Locked(call[c].on)
    /\ order' = [order EXCEPT ![call[c].on] = state]
    /\ Hangs(c)
    /\ UNCHANGED <<somVars, stock, simVars, results, verdict, created, subVars, faults>>

(* Mutant: a state the transition table does not know. *)
CommitCancel_Misspelt(c) == Cancelled(c, "canceled")

CommitCancel(c) == Cancelled(c, "cancelled")

(* An upstream error, a refusal, a client that went away. *)
Abandon(c) ==
    /\ call[c] # NoCall
    /\ Hangs(c)
    /\ UNCHANGED <<order, somVars, stock, simVars, results, verdict, created, subVars, faults>>

-----------------------------------------------------------------------------
(* SOM: decompose_order, on the consumer of order.in_progress. *)

(* Mutant: reserve-next forgets the status predicate. *)
Free_Any(x) == stock[x] # "assigned"

Free(x) == stock[x] = "available"

Reserve(j, x) ==
    /\ so[j] = "requested"
    /\ Free(x)
    /\ stock' = [stock EXCEPT ![x] = "reserved"]
    /\ items' = [items EXCEPT ![j] = @ \union {x}]
    /\ UNCHANGED <<comVars, request, so, tries, cfs, pending, simVars, results, verdict, created, subVars, faults>>

ReserveNumber(j, x) == items[j] = {} /\ x \in Number /\ Reserve(j, x)
ReserveSim(j, x) == items[j] # {} /\ items[j] \subseteq Number /\ x \in Sim /\ Reserve(j, x)

(* release_msisdn and release_esim look at the status, not at the holder. *)
Release(xs) ==
    stock' = [x \in Item |-> IF x \in xs /\ (stock[x] = "reserved" \/ x \in Number)
                             THEN "available" ELSE stock[x]]

Retry(j) == tries[j] < MaxRetries /\ tries' = [tries EXCEPT ![j] = @ + 1]

(* Any Err or crash rolls the rows back.  Only the eSIM's refusal gives the
   number back; what the transaction held when the database or the process
   failed stays reserved.  Then the event is retried or parked. *)
DecomposeFails(j) ==
    /\ so[j] = "requested"
    /\ \/ items[j] \subseteq Number /\ Release(items[j]) /\ UNCHANGED faults
       \/ items[j] # {} /\ Fault /\ UNCHANGED stock
    /\ items' = [items EXCEPT ![j] = {}]
    /\ \/ Retry(j) /\ UNCHANGED so
       \/ tries[j] = MaxRetries /\ so' = [so EXCEPT ![j] = "parked"] /\ UNCHANGED tries
    /\ UNCHANGED <<comVars, request, cfs, pending, simVars, results, verdict, created, subVars>>

Decompose(j) ==
    /\ so[j] = "requested"
    /\ items[j] \intersect Sim # {}
    /\ so' = [so EXCEPT ![j] = "in_progress"]
    /\ cfs' = [cfs EXCEPT ![j] = "reserved"]
    /\ pending' = [pending EXCEPT ![j] = [t \in Task |-> "pending"]]
    /\ tries' = [tries EXCEPT ![j] = 0]
    /\ todo' = todo \union ({j} \X Task)
    /\ UNCHANGED <<comVars, request, items, stock, stuckRows, done, results, verdict, created, subVars, faults>>

-----------------------------------------------------------------------------
(* The provisioning simulator: process_task and the operator's resolve. *)

Report(k, j, t, known) ==
    /\ results' = results \union {[kind |-> k, job |-> j, task |-> t, known |-> known]}
    /\ done' = IF k = "completed" THEN done \union {<<j, t>>} ELSE done

(* persist_and_publish publishes inline and then commits the row and the inbox
   claim.  If that commit fails the delivery is rejected without requeue; if the
   process dies it is delivered again. *)
RunTask(j, t, k) ==
    /\ <<j, t>> \in todo
    /\ Report(k, j, t, TRUE)
    /\ \/ /\ todo' = todo \ {<<j, t>>}
          /\ stuckRows' = IF k = "stuck" THEN stuckRows \union {<<j, t>>} ELSE stuckRows
          /\ UNCHANGED faults
       \/ /\ todo' \in {todo, todo \ {<<j, t>>}}
          /\ UNCHANGED stuckRows
          /\ Fault
    /\ UNCHANGED <<comVars, somVars, stock, verdict, created, subVars>>

(* The database fails before anything was published: the delivery is rejected
   without requeue and the queue has no dead-letter exchange. *)
DropTask(j, t) ==
    /\ <<j, t>> \in todo
    /\ todo' = todo \ {<<j, t>>}
    /\ Fault
    /\ UNCHANGED <<comVars, somVars, stock, stuckRows, done, results, verdict, created, subVars>>

(* resolve_stuck: the state is checked on an unlocked read. *)
BeginResolve(c, j, t) ==
    /\ call[c] = NoCall
    /\ <<j, t>> \in stuckRows
    /\ Calls(c, "resolve", <<j, t>>)
    /\ UNCHANGED <<order, somVars, stock, simVars, results, verdict, created, subVars, faults>>

(* The row is reset and the worker runs again; the order ids are looked up in
   the row's payload, which never carries them.  A second stuck row for the same
   task would repeat this and is not modelled. *)
Resolve(c, k) ==
    /\ call[c] # NoCall /\ call[c].op = "resolve"
    /\ k # "stuck"
    /\ stuckRows' = stuckRows \ {call[c].on}
    /\ Report(k, call[c].on[1], call[c].on[2], FALSE)
    /\ Hangs(c)
    /\ UNCHANGED <<order, somVars, stock, todo, verdict, created, subVars, faults>>

-----------------------------------------------------------------------------
(* SOM: the task result handlers, under the CFS row lock. *)

Mark(m, status) == pending' = [pending EXCEPT ![m.job][m.task] = status]

(* Mutant: a task counts as settled once it is no longer pending. *)
AllCompleted_NoPending(m) == \A t \in Task \ {m.task} : pending[m.job][t] # "pending"

AllCompleted(m) == \A t \in Task \ {m.task} : pending[m.job][t] = "completed"

(* Acked, or redelivered after the commit: there is no id to deduplicate on. *)
Consume(m) ==
    \/ results' = results \ {m} /\ UNCHANGED faults
    \/ Fault /\ UNCHANGED results

(* The service order is found only under the id the message carries. *)
SettleServiceOrder(m, state) == so' = IF m.known THEN [so EXCEPT ![m.job] = state] ELSE so

StageVerdict(m, k) == verdict' = [verdict EXCEPT ![<<m.job, k>>] = "staged"]

(* handle_task_completed on an activated service, or with tasks still open. *)
CountTask(m) ==
    /\ m.kind = "completed"
    /\ IF cfs[m.job] = "activated" THEN UNCHANGED pending
                                   ELSE ~AllCompleted(m) /\ Mark(m, "completed")
    /\ Consume(m)
    /\ UNCHANGED <<comVars, request, so, items, tries, cfs, stock, simVars, verdict, created, subVars>>

(* The last task: CFS and its RFS children, the service order, the event. *)
ActivateService(m) ==
    /\ m.kind = "completed"
    /\ cfs[m.job] = "reserved" /\ AllCompleted(m)
    /\ Mark(m, "completed")
    /\ cfs' = [cfs EXCEPT ![m.job] = "activated"]
    /\ SettleServiceOrder(m, "completed")
    /\ StageVerdict(m, "completed")
    /\ Consume(m)
    /\ UNCHANGED <<comVars, request, items, tries, stock, simVars, created, subVars>>

(* Mutant: handle_task_failed without check_service_transition. *)
FailService_Unchecked(m) ==
    /\ m.kind = "failed"
    /\ Mark(m, "failed")
    /\ cfs' = [cfs EXCEPT ![m.job] = "failed"]
    /\ Release(items[m.job]) /\ Consume(m)
    /\ SettleServiceOrder(m, "failed")
    /\ StageVerdict(m, "failed")
    /\ UNCHANGED <<comVars, request, items, tries, simVars, created, subVars>>

(* Mutant: the order is not told. *)
FailService_Silent(m) ==
    /\ m.kind = "failed"
    /\ cfs[m.job] = "reserved"
    /\ Mark(m, "failed")
    /\ cfs' = [cfs EXCEPT ![m.job] = "failed"]
    /\ Release(items[m.job]) /\ Consume(m)
    /\ SettleServiceOrder(m, "failed")
    /\ UNCHANGED <<comVars, request, items, tries, simVars, verdict, created, subVars>>

(* handle_task_failed; the release is best effort. *)
FailService(m) ==
    /\ m.kind = "failed"
    /\ cfs[m.job] = "reserved"
    /\ Mark(m, "failed")
    /\ cfs' = [cfs EXCEPT ![m.job] = "failed"]
    /\ \/ Release(items[m.job]) /\ Consume(m)
       \/ UNCHANGED stock /\ Fault /\ results' = results \ {m}
    /\ SettleServiceOrder(m, "failed")
    /\ StageVerdict(m, "failed")
    /\ UNCHANGED <<comVars, request, items, tries, simVars, created, subVars>>

(* The inventory was released and then the transaction fails. *)
FailServiceRollsBack(m) ==
    /\ m.kind = "failed"
    /\ cfs[m.job] = "reserved"
    /\ Release(items[m.job])
    /\ Fault
    /\ UNCHANGED <<comVars, somVars, simVars, results, verdict, created, subVars>>

(* handle_task_stuck looks at no state. *)
RecordStuck(m) ==
    /\ m.kind = "stuck"
    /\ Mark(m, "stuck")
    /\ Consume(m)
    /\ UNCHANGED <<comVars, request, so, items, tries, cfs, stock, simVars, verdict, created, subVars>>

(* The service state machine refuses, on every retry: the message is parked. *)
ParkResult(m) ==
    /\ \/ m.kind = "completed" /\ cfs[m.job] = "failed" /\ AllCompleted(m)
       \/ m.kind = "failed" /\ cfs[m.job] # "reserved"
    /\ results' = results \ {m}
    /\ UNCHANGED <<comVars, somVars, stock, simVars, verdict, created, subVars, faults>>

-----------------------------------------------------------------------------
(* COM: the consumers of service_order.completed and service_order.failed,
   and the subscription.create they call. *)

Heard(v) == verdict' = [verdict EXCEPT ![v] = "heard"]

(* handle_service_order_completed's order lock is free and its guard holds. *)
Activating(j) ==
    /\ verdict[<<j, "completed">>] = "staged"
    /\ order[request[j]] = "in_progress"
    /\ ~Locked(request[j])

(* Any Err rolls COM back; bind_consumer retries the event or parks it. *)
RetryOrPark(j) ==
    \/ Retry(j) /\ UNCHANGED verdict
    \/ /\ tries[j] = MaxRetries /\ UNCHANGED tries
       /\ verdict' = [verdict EXCEPT ![<<j, "completed">>] = "parked"]

(* Mutant: no lookup by commercial order. *)
Existing_Never(o) == FALSE

(* get_by_commercial_order *)
Existing(o) == \E k \in subs : request[k] = o

(* check_msisdn_and_esim_reserved *)
Usable(j) == \A x \in items[j] : stock[x] # "available"

(* The unique indexes on msisdn, iccid and commercial_order_id. *)
Taken(j) == \E k \in subs : items[k] \intersect items[j] # {} \/ request[k] = request[j]

Charged(o) == charges' = [charges EXCEPT ![o] = @ + 1]
Assign(xs) == stock' = [x \in Item |-> IF x \in xs \intersect Number THEN "assigned" ELSE stock[x]]

CreateHit(j) ==
    /\ Activating(j)
    /\ Existing(request[j])
    /\ created' = created \union {j}
    /\ UNCHANGED <<comVars, somVars, stock, simVars, results, verdict, subVars, faults>>

Create(j) ==
    /\ Activating(j)
    /\ ~Existing(request[j]) /\ Usable(j) /\ ~Taken(j)
    /\ Charged(request[j])
    /\ Assign(items[j])
    /\ subs' = subs \union {j}
    /\ created' = created \union {j}
    /\ UNCHANGED <<comVars, somVars, simVars, results, verdict, declined, faults>>

(* A policy or an upstream error before the charge. *)
CreateRefused(j) ==
    /\ Activating(j)
    /\ RetryOrPark(j)
    /\ UNCHANGED <<comVars, request, so, items, cfs, pending, stock, simVars, results, created, subVars, faults>>

(* The number goes back to the pool; the recycle of an eSIM that is still
   reserved is refused. *)
CreateDeclined(j) ==
    /\ Activating(j)
    /\ ~Existing(request[j]) /\ Usable(j)
    /\ declined' = declined \union {request[j]}
    /\ Release(items[j] \intersect Number)
    /\ RetryOrPark(j)
    /\ UNCHANGED <<comVars, request, so, items, cfs, pending, simVars, results, created, subs, charges, faults>>

(* The card was charged and then the insert fails: a unique index, a lost
   database, a timed-out or dead process. *)
CreateFailsCharged(j) ==
    /\ Activating(j)
    /\ ~Existing(request[j]) /\ Usable(j)
    /\ (Taken(j) /\ UNCHANGED faults) \/ Fault
    /\ Charged(request[j])
    /\ Assign(items[j])
    /\ RetryOrPark(j)
    /\ UNCHANGED <<comVars, request, so, items, cfs, pending, simVars, results, created, subs, declined>>

Completed(j) ==
    /\ order' = [order EXCEPT ![request[j]] = "completed"]
    /\ Heard(<<j, "completed">>)
    /\ created' = created \ {j}
    /\ UNCHANGED <<call, somVars, stock, simVars, results, subVars, faults>>

(* Mutant: the order is completed before the subscription is there. *)
CommitCompleted_Early(j) == (j \in created \/ Activating(j)) /\ Completed(j)

CommitCompleted(j) == j \in created /\ Completed(j)

(* COM's transaction fails, or the answer came too late. *)
RollbackCompleted(j) ==
    /\ j \in created
    /\ created' = created \ {j}
    /\ Fault
    /\ RetryOrPark(j)
    /\ UNCHANGED <<comVars, request, so, items, cfs, pending, stock, simVars, results, subVars>>

FailOrder(j) ==
    /\ verdict[<<j, "failed">>] = "staged"
    /\ order[request[j]] = "in_progress"
    /\ ~Locked(request[j])
    /\ order' = [order EXCEPT ![request[j]] = "failed"]
    /\ Heard(<<j, "failed">>)
    /\ UNCHANGED <<call, somVars, stock, simVars, results, created, subVars, faults>>

(* The order is not in_progress: either handler logs and returns Ok. *)
SkipVerdict(v) ==
    /\ verdict[v] = "staged"
    /\ order[request[v[1]]] # "in_progress"
    /\ ~Locked(request[v[1]])
    /\ Heard(v)
    /\ UNCHANGED <<comVars, somVars, stock, simVars, results, created, subVars, faults>>

-----------------------------------------------------------------------------

ComCall(c) ==
    \/ \E o \in Order : BeginSubmit(c, o) \/ BeginCancel(c, o)
    \/ \E j \in Job : CommitSubmit(c, j)
    \/ AskSom(c) \/ CommitCancel(c) \/ Abandon(c)

ResolveCall(c) ==
    \/ \E j \in Job, t \in Task : BeginResolve(c, j, t)
    \/ \E k \in Outcomes : Resolve(c, k)

DecomposeStep(j) ==
    \/ \E x \in Item : ReserveNumber(j, x) \/ ReserveSim(j, x)
    \/ DecomposeFails(j)
    \/ Decompose(j)

TaskStep == \E j \in Job, t \in Task, k \in Outcomes : RunTask(j, t, k)

TaskFault == \E j \in Job, t \in Task : DropTask(j, t)

ResultStep ==
    \E m \in results :
        CountTask(m) \/ ActivateService(m) \/ FailService(m) \/ RecordStuck(m) \/ ParkResult(m)

ResultFault == \E m \in results : FailServiceRollsBack(m)

VerdictStep(j) ==
    \/ CreateHit(j) \/ Create(j) \/ CreateRefused(j) \/ CreateDeclined(j)
    \/ CreateFailsCharged(j)
    \/ CommitCompleted(j) \/ RollbackCompleted(j) \/ FailOrder(j)
    \/ SkipVerdict(<<j, "completed">>) \/ SkipVerdict(<<j, "failed">>)

Next ==
    \/ \E o \in Order : CreateOrder(o)
    \/ \E c \in Caller : ComCall(c) \/ ResolveCall(c)
    \/ \E j \in Job : DecomposeStep(j) \/ VerdictStep(j)
    \/ TaskStep \/ TaskFault \/ ResultStep \/ ResultFault

Spec == Init /\ [][Next]_vars

(* The outbox delivers every event and a consumer finishes what it was handed
   (module Outbox); the simulator and SOM work off their queues.  Nothing makes
   a request, an operator or an upstream service succeed. *)
Fairness ==
    /\ \A j \in Job : WF_vars(DecomposeStep(j)) /\ WF_vars(VerdictStep(j))
    /\ WF_vars(TaskStep) /\ WF_vars(ResultStep)

FairSpec == Spec /\ Fairness

-----------------------------------------------------------------------------
(* Properties. *)

(* COM hears at most one verdict on a service order, and it is the state the
   service ended in: task results are redelivered and come in any order, and the
   FOR UPDATE read and check_service_transition keep the verdict single. *)
OneVerdict ==
    \A j \in Job :
        /\ verdict[<<j, "completed">>] # "none" <=> cfs[j] = "activated"
        /\ verdict[<<j, "failed">>] # "none" <=> cfs[j] = "failed"

(* A service is activated only when the network completed every one of its
   tasks: a task that is stuck, failed or lost holds it back. *)
ActivatedByNetwork ==
    \A j \in Job : cfs[j] = "activated" => {j} \X Task \subseteq done

(* Two services never hold the same number or eSIM of their own accord: the pool
   gives an item to one decomposition and takes it back from its holder. *)
ItemsExclusive ==
    (faults = 0 /\ declined = {}) =>
        \A i, j \in Job :
            (i # j /\ cfs[i] # "failed" /\ cfs[j] # "failed") => items[i] \intersect items[j] = {}

(* An order is completed only once its subscription exists (create before
   commit), and stays served whatever is retried afterwards. *)
CompletedIsServed ==
    \A o \in Order : order[o] = "completed" => \E k \in subs : request[k] = o /\ cfs[k] = "activated"

(* "a repeat create for the same commercial order returns the existing
   subscription WITHOUT charging the card again" (subscription.create). *)
NoChargeAfterCreate ==
    [][\A o \in Order : (\E k \in subs : request[k] = o) => charges'[o] = charges[o]]_vars

ParkedFor(o) ==
    \E j \in Job : request[j] = o /\ (so[j] = "parked" \/ verdict[<<j, "completed">>] = "parked")

(* Without stuck tasks and crashes a submitted order reaches a terminal state,
   or an operator finds its event parked. *)
OrderSettles ==
    \A o \in Order : order[o] = "in_progress" ~> (order[o] # "in_progress" \/ ParkedFor(o))
=============================================================================
