# TLA+ models of BSS-CLI

Formal models of BSS-CLI: the event plane, the order plane, subscriptions and
usage, the number pool under the signup funnel, promotions, payments, and the
portal account. All are model-checked with TLC, and every safety property that
the runs find to hold is proved with TLAPS. Paths below are relative to the
repository root.

## 1. Inventory

BSS-CLI is nine Rust services over one PostgreSQL instance and one RabbitMQ
topic exchange (`bss.events`), with shared crates, two web portals and a CLI.
Services call each other over HTTP (`crates/bss-clients`), and react to events
that are staged in `audit.domain_event` and relayed to the broker.

| Part | State | Operations | Hard behaviour | What makes it correct |
|---|---|---|---|---|
| `crates/bss-events` | `audit.domain_event`, `<schema>.processed_event`, queues (main, retry, parked) | stage, drain/publish/mark, deliver, claim + handle + commit, retry, park, reconnect | several relays on one table, competing consumers, crashes between publish, mark, commit and ack, lost frames | an event takes effect at most once, is never silently lost, is in the end in effect or parked |
| `services/com` | `product_order`, items, history | create, submit, cancel; consume `service_order.completed/failed`; `order.stuck` sweep; promotion claim/redeem/revoke | HTTP handlers read, call out and write without a lock; the consumer holds a row lock while another service charges a card | a completed order is served; terminal states stay; one activation charge |
| `services/som` | service orders, services (CFS, RFS), `pendingTasks` | decompose; handle task completed/failed/stuck | reservations in another service are not part of the transaction; results duplicated and reordered | one verdict per service order; activation only when all tasks are done |
| `services/provisioning-sim` | `provisioning_task`, fault rules | run task, resolve stuck, retry failed | inline publish before commit, raw queue that drops on error, concurrent operators | results are true; no task is lost silently |
| `services/crm` inventory | `msisdn_pool`, `esim_profile`, `open_order` | reserve, assign, release, recycle, soft hold, expiry sweep | release without a holder check, pool exhaustion, holds that expire under a running funnel | an item has one holder; every hold can be swept |
| `services/crm` records | customers, contacts, KYC, cases, tickets, port requests | record keeping and three state machines | addresses kept in two schemas; port-out terminates a subscription over HTTP before its own commit | one customer per address; no order without an attestation |
| `services/subscription` | subscription, balances, VAS purchases | create, usage, VAS, renew, plan change, price migration, terminate; renewal worker | charge before write; reads without lock; two actors on one subscription | state machine respected; one charge per period; balances never lost |
| `services/payment` | methods, attempts, webhook events | charge, register, default, remove, cutover; webhooks | a new idempotency key per attempt; webhooks repeated and reordered | an attempt is recorded with what the provider did; a webhook takes effect once |
| `services/mediation`, `services/rating` | usage events | ingest, rate | inline publish before commit, without message id | every admitted record gets an outcome; duplicates only after failures; roaming and home apart |
| `services/catalog` | offerings, prices, promotions | offering and price administration, promotion assignment and validation | promotion state shared with the external loyalty service | an offer buys one line, and is released if unused; what is on sale is linked |
| `crates/bss-portal-auth` | identities, sessions, login tokens, step-up grants, pending actions, e-mail changes | login, link, e-mail change, rotation, step-up, stash/consume | read-then-update; two schemas in one transaction | links are one to one; both copies of an address agree |
| `portals/self-serve` | signup sessions in memory | the signup funnel, KYC webhook, account pages | copies of a session written back last-write-wins; a request stops between two calls | no path skips a step |
| `crates/bss-orchestrator`, `crates/bss-cockpit` | conversation transcripts | agent loop, tool calls, guards | driven by a language model | tool calls stay inside policy |
| `crates/bss-clients`, `bss-context`, `bss-middleware`, `bss-db`, `bss-clock`, `bss-webhooks`, `bss-telemetry`, `bss-models`, `bss-admin`, `migrations` | none of their own, or the schema | HTTP calls, attribution, pool, clock, signatures, tracing | none of their own | |
| `crates/bss-branding`, `bss-knowledge`, `bss-portal-ui`, `portals/csr`, `cli`, `conformance` | presentation | rendering, search, scripts | none | |

How the order plane interacts: `POST /order/{id}/submit` commits
`in_progress` and stages `order.in_progress`; SOM decomposes it, reserves a
number and an eSIM in CRM over HTTP and stages one `provisioning.task.created`
per task; the simulator runs the tasks and publishes their results; SOM
activates or fails the service and stages `service_order.completed` or
`service_order.failed`; COM calls `subscription.create`, which charges the card
through payment, and completes the order, claiming the order's promotion in the
external loyalty engine before the charge and redeeming or revoking it after.

The rest: the signup funnel of the self-serve portal holds a number in CRM
before there is an order, and creates the customer, the attestation, the card and
the order one call after the other. Mediation publishes usage records to rating
and rating to subscription, inline and outside the outbox. Payment calls the
provider inside the request and hears of it again by webhook. The portal keeps
its own copy of a customer's address and link.

## 2. Modules

| Module | Models | Kind |
|---|---|---|
| `EventEffect` | what the event plane promises a producer and a consumer | abstract specification |
| `Outbox` | `crates/bss-events`: outbox table, relays, broker, consumers | detailed specification, implements `EventEffect` |
| `OutboxProofs` | theorems about `Outbox` | proofs |
| `OrderFulfilment` | an order through COM, SOM, simulator, pools, `subscription.create` | specification |
| `OrderFulfilmentProofs` | theorems about `OrderFulfilment` | proofs |
| `Subscription` | `services/subscription`: one subscription after its activation, and the renewal worker | specification |
| `SubscriptionProofs` | theorems about `Subscription` | proofs |
| `UsagePipeline` | `services/mediation`, `services/rating`, `usage.rated` in `services/subscription` | specification |
| `UsagePipelineProofs` | theorems about `UsagePipeline` | proofs |
| `NumberPool` | the number pool and open orders of `services/crm` | operators and state, extended by `Signup` |
| `NumberLife` | what the pool promises to those who hold numbers and to those with a line | abstract specification |
| `Signup` | the signup funnel of `portals/self-serve` over the pool, with what provisioning and termination do to a number | detailed specification; its pool implements `NumberLife` |
| `SignupProofs` | theorems about `Signup` | proofs |
| `Loyalty` | the loyalty engine as `bss-clients/src/loyalty.rs` uses it (external) | operators and state, extended by `PromoSaga` |
| `PromoSaga` | promotions in `services/catalog`, the discount saga in `services/com` | specification |
| `PromoSagaProofs` | theorems about `PromoSaga` | proofs |
| `ChargeOutcome` | what payment promises to those who charge and to those who listen | abstract specification |
| `Payment` | `services/payment`: cards, charges, cutover, webhooks; the provider (external) | detailed specification, implements `ChargeOutcome` |
| `PaymentProofs` | theorems about `Payment` | proofs |
| `PortalAccount` | identity and address in `crates/bss-portal-auth` and `services/crm` | specification |
| `PortalAccountProofs` | theorems about `PortalAccount` | proofs |
| `MC...` | model values, symmetry, plans and bodies for TLC | model checking |

### Outbox

`row` is the committed outbox row of each event; `batch`, `tried` and `sent`
are the open transaction of each relay (rows locked, rows handed to the
publisher, rows it reported Ok for). `Drain`, `Publish`, `PublishError`,
`PublishLost`, `MarkAndCommit` and `RelayAbort` are the steps of `drain_once`:
the statement that locks, the publish of one row, the marks with the commit, and
every way the transaction can be rolled back. A message `<<e, k>>` is the k-th
copy of event `e` at the broker, `place` where it is, `deaths` its `x-death`
count. A queue is a set: with prefetch 5, competing consumers, redelivery and
the retry queue no order can be relied on.

A worker runs `bind_consumer`: `Deliver`, `Claim` (the inbox insert, which waits
for a concurrent claim and finds a committed one), `Commit` (handler writes and
claim together; the answer to COMMIT may be lost), `HandlerError`, and then
`Ack`, `Nack` or `Park`. `live` says whether the channel of the delivery is
still the broker's: after `ChannelLost` the copy is requeued while the handler
goes on, and its ack or nack has no effect.

One queue is modelled, because the inbox is keyed by consumer and a queue's
copies are its own. Payload, tracing headers and timing are left out; only
whether a back-off has ended matters, and that is nondeterministic.

### OrderFulfilment

A *job* is one `order.in_progress` event and the service order made of it: an
order can have several, since two submits can both commit. Each HTTP handler is
two steps of a `Caller`: what it read and decided (`BeginSubmit`, `BeginCancel`,
`AskSom`, `BeginResolve`), and its commit (`CommitSubmit`, `CommitCancel`,
`Resolve`). Between them anything may happen, as in the code, whose `UPDATE`
has no state in its `WHERE`. Consumers take the row lock with their first read,
so each is one step, cut where another service has changed before the commit:
`ReserveNumber`, `ReserveSim`, `Decompose`/`DecomposeFails` for
`decompose_order`; `Create`.../`CommitCompleted`/`RollbackCompleted` for
`handle_service_order_completed`; `FailServiceRollsBack` for the release that
`handle_task_failed` does before its commit. `Create` is the lookup, the charge and the
insert of `subscription.create` in one step: COM's row lock keeps two calls for one
order apart, and an overlap inside the call, after a time-out, is not in this module.

`verdict` holds the `service_order.*` events. They come through the outbox, so
by `EffectAtMostOnce` they take effect at most once, in any order. `results`
holds the simulator's messages, which carry no message id: `Consume` lets each
be handled again. `tries` is the retry count of the event a job is at; when the
budget is spent the event is parked.

`stock` is the state of numbers and eSIMs, and `items` what the service
characteristics say a job holds. The two are apart, because a release looks
only at the status.

Left out: RFS children (they follow their CFS in its transaction); number
preference and soft holds (in `Signup`); the promotion saga (in `PromoSaga`); the
`order.stuck` sweeper, which
only reports; `retry_failed`, which the built-in eSIM provider makes unreachable
(a failed row has used all attempts); a second stuck row for one task.

### Subscription

`sub` is the subscription row, `data` its balance row, and `job[p]` what the
process `p` has in its hands: the operation, how far it is, the row it read
without a lock, the clock it read, the balance it read. A process is a worker
replica or a request (an HTTP handler or one `usage.rated` delivery).

* `service::renew`: `Begin` or `Dispatch` (the read and `check_renew_allowed`),
  `Charge` (the call to payment, with the discount decided on what was read),
  then one transaction: `RenewApproved`, `RenewDeclined`, or `RenewRefused` when
  the state machine knows no such step from the state that was read.
* `worker.rs`: `SweepDue` and `SweepSkipped` select and mark in one transaction;
  `Dispatch` is the call of `service::renew` after it, and `Crash` may come between.
  The clock is read at the same step; an earlier reading selects no row that a
  later one would not.
* `purchase_vas`: `Begin`, `Charge`, `ReadTotals`, `ApplyTopUp`.
* `handle_usage_rated`: `Begin` (the unlocked state check), `LockBalance`,
  `ApplyUsage` (the write and the commit).
* plan change, migration and termination: `Begin`, and the write.

An action writes the columns the SQL statement names with the values that were
read, and leaves the other columns as they are now: that is where the lost
updates of this service are. A transaction that writes the balance waits while
`usage.rated` holds its row (`~Locked`). `Abandon` is a refusal or an upstream
error between the read and the charge, `Crash` the end of a process at any point, and
`Charge` has a disjunct for the charge whose answer is lost.

`attempts` (marks), `attended` (calls of `service::renew` and skip signals),
`interrupted` (marks whose process died before the call), `unapplied`, `discounted`,
`byHand`, `used` and `spilled` are history variables, which no guard reads.

Left out: allowances other than data (in `UsagePipeline`) and unlimited ones (the
same code, without the state change); perpetual discounts; other subscriptions,
which share only the worker's batch; the pools that `terminate` calls (in
`Signup`). A redelivered `usage.rated` counts as another event here: it has no
message id, so the inbox does not know it again.

### UsagePipeline

`at[c]` is how far mediation is with record `c`. `ingest` is `Enrich` (the lookup
of the number, by rows that may be a former holder's), `InsertAndPublish`
(the insert, and the publish before the commit), `CommitRecorded` (the audit row,
with the flag that says whether the publish was reported), `RollBack`, and
`RecordRejection`. A rating process takes a copy, decides the allowance
(`Target`), publishes `usage.rated` inline, and writes its audit row. `Publishes`
has the four outcomes of a publish: reported or not, received or not. A row with
the flag down is published again by a relay (`Relay`). `HandleUsageRated` is one
step; its interleavings are in `Subscription`.

Queues are counted by record. The number passes from one subscription to the
next by `Activate` and `Terminate`; `TopUp` unblocks.

### NumberPool and Signup

`NumberPool` has the rows of `msisdn_pool` and `open_order`, and an operator for
each statement or transaction of `crm` on them. A hold is soft while
`reserved_until` is set; `reserve_next_msisdn` makes it hard, whoever it was for.

In `Signup`, `requests[r]` is a handler of the portal: its next call, and its copy
of the session. `Submit` to `Bind` are `signup_submit`; the pages of the progress
view read the store again (`Resolve`), call, and `Write` the copy back over what
is there. Two requests of one session can be under way. `Abandon` stops a request
between two calls, `LoseSession` is the time to live or a restart, `Login` links an
identity that lost its customer, `DeleteCustomer` is the removal that the relink
path exists for. `Deployments` says which steps are on a hosted page: Didit for
the KYC, Stripe for the card. `KycWebhook` is one provider's delivery; a late one
overwrites the verdict. `AttestationMissing` is the fetch of the verdict that fails,
after which the page shows the step it was at; `Attest` is the answer of CRM, a refusal
included, which ends the session. `Bind` is `link_to_customer` in one step; its two
statements are in `PortalAccount`.

The open order page looks the order up and cancels it in a second call. That call has
two statements: where the first finds the hold, the row it locks keeps every other
writer of the number out until the commit (`Cancel`); where it finds none it locks
nothing (`CancelUnmatched`), and the second closes whatever the open order is by then
(`CancelCommit`). `crossed` are the open orders resumed between the two. The sweep
locks the open orders first, so it is one step.

SOM and subscription are here as far as they use the number. `Provision` reserves it in
CRM before SOM's own commit, and `DecompositionFails` is the rollback, with the number
released, or left reserved and nobody's. `ServiceFails` and `ActivationDeclined` release
it before a commit that may not come; after a decline the event is delivered again
(`StartActivation`), which asks that the number is taken and not by whom, and parks in
the end (`Park`). The unique index on the numbers of live subscriptions (`LineExists`)
refuses the insert of `Activate`, not the assignment before it. A termination is a read,
a release and a write (`TerminateRead`, `TerminateRelease`, `TerminateCommit`), and two
of them may overlap. `given` are the orders that have given their number back. `astray`
is set when one of these releases it once more, or has a line started on it: after that
the code lets two orders share a number.

`NumberLife` has no session, request, row or batch: a number is free, held until some
time, a line's, or lost. `Life` maps `free` to the available rows, `hold` to the soft
ones, and `line` to the number of an order from its reservation to the release. The
three come from different tables, so that a step which forgot one of them (a window
that stays) is no step of `NumberLife`. What is lost is what a failed release or a
decomposition that was rolled back leaves reserved, and `Recover` its late release.
`PromiseKept` is about the steps up to the first that goes astray.

### Loyalty and PromoSaga

`Loyalty` has definitions, codes, offers, and the answers kept per idempotency
key. It is external: what it does follows from how `loyalty.rs` calls it and reads
its refusals; `Revocable` leaves open whether a redeemed offer can be revoked.

In `PromoSaga` a request of catalog walks `create_promotion`, `assign_targeted` or
`unassign_targeted` one call at a time, and `handling[o]` is the handler of
`service_order.completed`: claim, create the line, redeem or revoke, commit. Every
call may lose its answer with or without its effect (`lost`), every process may
stop, and the event is given again up to its retry budget. A revocation puts the offer
back in stock and leaves the code spent (`Inventory`), as `phases/V1_1_0.md:246` says.
`Discounts` offers the eligible promotions twice, the consumed ones left out or not: when
loyalty does not list the offers, none counts as consumed.

### Payment

One customer. `request[r]` is what a request has read: a card checked, a
charge sent, a count taken, defaults cleared. `Send` is the provider's call, and
`Record` the row: between them the money has moved without one. `Drop` ends a
request anywhere, counted when it had sent. `Restart` may change the tokenizer,
and the cards of the other one stay. `hook[d]` is the event whose row a delivery
has inserted and not committed; `Claimable` waits for it, as the primary key does.

`ChargeOutcome` has no request, adapter, transaction or delivery. It says that an
attempt is charged once and its end is final, that a row is written once and is no
verdict the provider did not give, and that the domain hears of an event once, after
it happened, and of an end only when the row does not say it. A failed end is two events
of the provider, `charge.failed` and `payment_intent.payment_failed`; both have the
attempt's row looked up, and of an errored one both report the drift. `Promise` maps `money`
to the state of the intent, `row` to the attempt, and `told` to the events staged.

### PortalAccount

`identity` and `media` hold an address each. A request is what it read and the
commit of what it writes: `LoginVerify`/`LoginCommit`, `SignupSubmit`/
`SignupCreate`/`ReadLink`/`LinkToCustomer`, `ChangeStart`/`ChangeStarted`, `ChangeVerify`/
`ChangeCommit`. The unique indexes are guards of the commits; `Stop` is also the
transaction that one of them rolls back. `edited` and `lost` are history: a CSR
changed the addresses of a customer; a login, or the second statement of
`link_to_customer`, overwrote a link it had not seen.

## 3. Runs

| Run | Shows | Bounds |
|---|---|---|
| `outbox_safety` | effect at most once, nothing silently lost, duplicates only after faults | 2 events, 2 relays, 2 workers, 2 copies, batch 2, 1 retry, 1 fault, 1 lost frame |
| `outbox_liveness` | `Outbox` implements `EventEffect`; every delivery settles | 1 event, 1 relay, 2 workers, 3 copies, 1 retry, 2 faults, nothing lost |
| `outbox_loss` (violation) | a published row may never have reached the broker | 1 of each, 1 lost frame |
| `fulfilment_races` | items exclusive, completed is served, no charge after create | 2 orders, 2 service orders, 2 requests, 2 numbers, 2 eSIMs, 1 task, 1 retry, 1 fault |
| `fulfilment_tasks` | one verdict, activation only by the network | 1 service order, 2 tasks, 2 operators, all outcomes, 1 retry, 2 faults |
| `fulfilment_liveness` | every submitted order ends or is parked | 2 orders, 2 service orders, 1 number, 2 eSIMs, 2 tasks, no faults |
| `subscription_races` | one attempt per due date, every due date renewed or signalled unless the process that marked it died, usage conserved, nothing granted unpaid, discount within its budget | 2 replicas, 2 processes for requests and 2 requests, 2 due dates, 2 plans, 1 discounted period, usage of 1 or 2, 1 fault |
| `usage_pipeline` | duplicates only after failures, roaming and home apart, no admitted record without an outcome | 2 records (home and roaming data; voice and an empty one), 2 holders of the number, 1 rating process, 1 top-up, 1 outage, 1 fault |
| `signup_funnel` | no order without an attestation, one order per number, holds within reach of the sweep; the pool implements `NumberLife` | 1 owner, 1 number, 2 open orders, 1 session at a time, 2 requests, 2 customers, 2 orders, either hosted step, clock to 2 with holds of 1, 1 fault, 1 cancellation at a time; no state after one that is astray |
| `promo_saga` | an offer buys one line, only a decline burns a code unless a call was lost, what is on sale is linked | 1 promotion, 1 code of 2 kinds, 1 customer, 2 orders, 2 requests, 2 deliveries of the event, 1 fault |
| `payments` | rows and money differ by the dropped charges, an event is staged once, the cap gives by one per request in flight; `Payment` implements `ChargeOutcome` | rows for 3 cards, cap 1, 1 charge, 2 requests, 2 deliveries, 3 kinds of event (both of a failed end, a refund), 1 change of the default, 1 dropped charge |
| `portal_account` | both copies of an address agree, links are one to one | 2 identities, 2 addresses, 2 customers, of which a CSR edits 1, 2 e-mail changes, 2 requests |

Why the bounds are enough. Every race here is between two actors on one row or
one item: two relays, two workers, two requests, two service orders that want
one item, two copies of a session, two deliveries of a webhook. A retry budget
of one has all three cases (below, at, parked). One fault per run separates each
fault from the others; two cover a fault during the recovery from a fault. Two
tasks distinguish first from last. One number for two service orders makes the
pool run empty. Two replicas and two requests meet in all pairs on one
subscription row; two due dates let a renewal be followed by the next one, and
one discounted period is used up by the first. One number and one owner are
where two signups of one person collide; two customers and two orders are the
one that was replaced and the one that replaces it. Two orders compete for one
offer. A cap of one and two requests in flight reach the most cards the cap lets
through, and the third row is there to hold one more. Two addresses and two
accounts are enough to swap.

What the bounds leave out: a second owner in `signup_funnel` (that a hold
is taken over by another person's order differs only in who places it), a second
code in `promo_saga` (a resumed creation with another code), a second charge,
`charge.succeeded` and disputes in `payments`: attempts share nothing but the sequence of
their numbers, a success is routed like a failure with one event instead of two, and a
dispute like a refund. The theorems of section 5 have all of these.

In `signup_funnel` one fault is a lost request, a decline, a failed service or
decomposition, a lost session or a customer deleted out of band, so that no two of
them meet. A customer who has ordered is not deleted. The constraint `Straight` cuts the
states after one that is astray, of which no property speaks.

Every run but `portal_account`, where something can always be called, sets
`CHECK_DEADLOCK FALSE`: when every event is settled and every order has ended
nothing is left to do.

### Where the code and its documents part

`outbox_loss` shows that `publish_on` does not wait for a confirm, since no
channel is in confirm mode (PROJECT.json, `findings`).

Met while modelling, and the reason for a condition in a property or for a
property that is not there:

* `submit_order` and `cancel_order` write over each other's result: a cancelled
  order can go back to `in_progress` and be provisioned.
* `reprocess` loses the service order id, so after `resolve_stuck` the service is
  activated while its service order stays `in_progress`.
* A declined activation charge is retried with the event, and the number it
  released may be somebody else's by then (`ItemsExclusive`: `declined = {}`;
  `NumberNotShared`: `astray`).
* `renew` lets a blocked subscription through, charges it, and is then refused by
  the state machine.
* The handbook (7.5) says that a renewal that was interrupted is picked up by
  the next process, "because the dedup column was committed". The committed mark is what
  hides the row from every later sweep. `DueIsAttended` has the exception in its words:
  a due date is renewed or signalled unless the process that marked it dies before the
  call (`interrupted`). What `service::renew` gives up after the call is not repeated.
* The handbook (7.2, `docs/HANDBOOK.md:1063` and `:1081`) says that a linked identity
  skips the KYC and jumps to the order.
  The code (`signup.rs:461-467`) goes to the first step that is missing, the KYC and the
  card included, and so does `ResumeCustomer`; `KycBeforeOrder` rests on it.
* `route_terminal_charge` takes `charge.failed` and `payment_intent.payment_failed`
  alike, so the one failed end of an errored attempt reports its drift twice.
* A charge webhook that comes before the attempt's row is marked processed as
  somebody else's; its drift is not reported.
* A soft hold does not serve its owner alone: `reserve_next_msisdn` takes any.
  And `complete_open_order` releases nothing, so that a hold renewed by another
  session of a completed open order is out of the sweep's reach
  (`HoldsInReach`: `completed`).
* An open order resumed between the two statements of its cancellation is closed with
  its hold in place, which no sweep finds (`HoldsInReach`: `crossed`).
* A termination whose commit fails leaves a line active whose number is back in
  the pool, and so it counts as ended. Two terminations release the number twice
  (`NumberNotShared`: `astray`).
* A reservation whose decomposition is rolled back stays in CRM and is nobody's; the
  retried event takes the next number, or parks when it prefers this one.
* A declined card burns a single-use code: the claim is revoked, which restores the
  offer and not the code. The documents accept it (`phases/V1_1_0.md:57`, `:246`), and
  `OnlyDeclinesBurn` says that nothing else does, as long as no call is lost.
* A creation of a promotion that is resumed after an exhaust makes it active
  again.
* A login writes back the link it read, and so does `link_to_customer`. A link made
  meanwhile is lost until the next login (`EmailsAgree`, `LinksOneToOne`: `lost`).
* An e-mail change that was cancelled after it was read is carried out.

## 4. Fairness

`Outbox!Fairness`: a relay ticks for ever and finishes its batch
(`start_relay` loops unconditionally); a worker finishes what it was handed
(handlers call HTTP clients with timeouts); the broker delivers and expires
TTLs. No fairness on a handler's success: a worker that is to take a step may
always take `HandlerError`. `WorkerStep` is fair as a whole for that reason.

`OrderFulfilment!Fairness`: decomposition, the verdict consumer of each job, the
simulator and SOM's result consumer take steps. These are the consequences of
`EverythingSettles` for the outbox events. No fairness for requests, operators,
releases that work, charges that are approved. `OrderSettles` assumes no crash
and no stuck task: with a rejected delivery (`DropTask`) or an unresolved stuck
task the order does wait for ever, which the code leaves to the
`order.stuck` report.

`Subscription!Fairness`: a replica whose sweep would find the row sweeps
(`tick_loop` is unconditional), and a process that can go on does
(`Proceed`: HTTP clients have timeouts). `Proceed` is fair as a whole, so that a
charge may always be declined and a call always fail. Nothing is assumed of
requests, crashes or the clock. `DueIsAttended` does not speak of a due date that an
earlier date's mark had passed already when a renewal a period late wrote it (`Passed`):
no sweep will want it.

`UsagePipeline!Fairness`: mediation's handler, rating's step, the consumers and
the relays go on when they can. `RecordedIsSettled` needs all four, and is stated
for runs without a fault: a rolled-back audit row or a failed rating that is
acknowledged does lose usage. A publish that reports an error is not a fault
there; the relay repairs it.

The other modules state no fairness. Nothing makes a person finish a signup, an
operator finish a promotion, or a provider send its webhooks, and what the code
itself must finish, the expiry sweep, is a guard and a loop.

## 5. Proofs

`OutboxProofs` proves, for any number of events, relays, workers, copies,
retries and faults:

* `TypeCorrect`: `Spec => []TypeOK`;
* `EffectAtMostOnce`: `Spec => []AtMostOnceEffect`;
* `NothingLost`: `Spec => []NoSilentLoss`;
* `NoIdleDuplicates`: `Spec => []DuplicatesNeedFaults`;
* `RetriesAreBounded`: `Spec => []RetryBudget`, which only the proof checks;
* `PlaneImplementsPromise`: `Spec` implements `EventEffect!Safety`.

The assumption is `BoundsAssumption` (the bounds are naturals, the batch is not
empty). None of the properties is inductive alone.

* `EffectInv` adds who may hold a claim to `AtMostOnceEffect`: a worker in phase
  claimed or later holds a message the broker knows (`Holding`), two workers
  never hold a claim on one event, since the inbox insert waits
  (`ClaimExclusive`), a claimed event is not in the inbox yet (`ClaimFresh`), and
  an event is in effect exactly when it is in the inbox (`EffectIsClaim`). From
  these `Commit` cannot apply an event twice.
* `LossInv` follows the copies for `NothingLost`: a delivery that is still the
  broker's is held by one worker, and it is given up only when its event is in
  effect or parked (`Deliveries`: `LiveIsHeld`, `OneHolder`, `SettledIsSafe`).
* `RelayInv` says for `NoIdleDuplicates` that the batches of two relays share no
  row (`Locks`), and that the copies of a row beyond its marks were paid for by
  a fault (`PaidFor`).
* `BudgetInv`: a copy in the retry queue has a trip left (`OnTripWithinBudget`),
  since only a nack sends it there and the count is the copy's own.
* The refinement maps `Commit` to `Apply`, `Park` to `Park`, `Stage` to `Stage`
  and all else to stuttering; it needs that what a worker holds was staged
  (`Sourced`).

`OrderFulfilmentProofs` proves, for any number of orders, requests, service
orders, tasks, numbers, eSIMs, retries and faults:

* `TypeCorrect`: `Spec => []TypeOK`;
* `VerdictIsSingle`: `Spec => []OneVerdict`;
* `NetworkActivates`: `Spec => []ActivatedByNetwork`;
* `CompletedOrdersServed`: `Spec => []CompletedIsServed`;
* `ChargedNoMore`: `Spec => NoChargeAfterCreate`;
* `ItemsHaveOneHolder`: `Spec => []ItemsExclusive`.

The assumption is `FulfilmentAssumption` (natural bounds, known outcomes,
numbers are not eSIMs).

* `VerdictInv` carries the first two together, because neither stands alone: a
  declined charge is recorded under the order of its job, and that it has one
  (`Requested`) follows from there being a verdict, hence a service, hence a
  decomposition (`Decomposed`). `InHand` says that while COM holds the order's
  row lock nobody else settles the event it is handling.
* `Reported`: a completed result, and a task marked completed, is one the
  network completed. So the count that activates the service cannot run ahead of
  the network.
* `ServedInv`: every subscription is on an activated service, and every order
  COM is about to complete has one. That an activated service stays activated,
  and its job keeps its order, is `ActivatedStays`.
* `HeldInv`: until the first fault or declined charge, what a live service holds
  is not available in the pool (`KeepsItems`). `Release` asks only for the
  status, so it is exclusiveness itself that keeps it from freeing another's
  number, and the two are proved together. After a decline the proof, like the
  code, has nothing to stand on: the number is given back while the job keeps it
  and retries.

`SubscriptionProofs` proves, for any number of replicas, requests, plans, due
dates and faults:

* `TypeCorrect`: `Spec => []TypeOK`;
* `OneDispatch`: `Spec => []OneAttemptPerDue`;
* `UsageIsConserved`: `Spec => []UsageConserved`;
* `NoGrantUnpaid`: `Spec => []GrantedWasPaid`;
* `DiscountIsBudgeted`: `Spec => []DiscountWithinBudget`.

The assumption is `SubscriptionAssumption` (quantities and bounds are naturals, a
period is not empty).

* `AttemptInv`: a due date that was attempted is not after the row's mark
  (`Attempted`). A sweep wants a due date after the mark, so it is a new one, and
  it moves the mark to now, which is not before it.
* `UsageInv`: at most one process holds the balance row (`LockExclusive`), and
  what it read is still there (`LockedIsCurrent`).
* `PaidInv`: the processes that hold an approved charge are no more than the
  approvals not yet applied. The count is what makes it inductive: each grant
  uses up the charge of its own process.
* `SerialInv`, as long as nobody renews by hand: there is one renewal at a time
  (`SoleRenewal`), because the mark stays at or after the due date until it has
  written (`RenewalIsMarked`); so the counter it read is the row's
  (`DiscountIsCurrent`); and what was charged and what is left stay within the
  promise (`BudgetLeft`), also when a charge's answer is lost: then the due date
  is never attempted again. With a renewal by hand it fails, which is why the
  property has `byHand`.

`UsagePipelineProofs` proves, for any number of records, subscriptions, tariffs,
rating processes and failures:

* `TypeCorrect`: `Spec => []TypeOK`;
* `PocketsStayApart`: `Spec => []PocketsApart`;
* `DuplicatesArePaid`: `Spec => []DuplicatesNeedFaults`.

The assumption is `UsageAssumption` (a tariff is a set of allowances, the rating
processes are finitely many, bounds are naturals).

* `FlowInv` makes `TypeOK` inductive: a record that rating has, or may come to
  have, passed mediation's policies and has a holder (`Admitted`), and one that
  subscription has, or may come to have, has its allowance in that holder's tariff
  (`Priced`). Without it a decrement could hit a balance row that does not exist.
* `PocketsApart` needs only that the allowance is a function of the record, which
  no redelivery changes (`OnlyDecrements`).
* `CountInv` counts everything that is or may become a decrement of a record
  (`Due`): decrements made, copies in both queues, rows a relay has still to
  publish, processes that carry the record, and mediation's own step. A step adds
  to the sum no more than it adds failures (`Paid`). A rating process that took a
  copy, and one whose publish was refused, count as one each: that is why the row
  with the flag down is not a second copy.

`SignupProofs` proves, for any number of addresses, numbers, open orders, sessions,
requests, customers, orders and faults, in every deployment:

* `TypeCorrect`: `Spec => []TypeOK`;
* `HoldsAreFound`: `Spec => []HoldsInReach`;
* `OneLinePerNumber`: `Spec => []NumberNotShared`;
* `AttestedFirst`: `Spec => []KycBeforeOrder`;
* `PoolKeepsPromise`: every step of `Spec`, until an order goes astray, is a step of
  `NumberLife` or a stutter.

The assumptions are `PoolAssumption` and `SignupAssumption` (`None` is no value, a
hold has a length, the clock starts at 1 and may go on, ids are positive).

* `TypeInv` adds to `TypeOK` what makes it inductive: what a request looks up or submits
  exists, and only the copy that is about to be written is of a session that failed.
* `HoldInv` adds to `HoldsInReach` that the open order of a hold is for that very
  number. So a transaction that settles an open order settles its hold too, and no
  statement on another number can leave the hold behind. `CrossInv` is about the
  cancellation between its two statements: what holds a number for its open order by
  then was resumed after the first, and is in `crossed`.
* `PlacedOnce`: an order a request is about to submit is its own and new, what is being
  terminated was completed, and nothing is given back before it was reserved.
* `NumberInv`: the number of an order that has not given it back is reserved or
  assigned, without a window and without an open order (`Hard`), also after a
  termination whose release failed (`Keeps`), and no two such orders have one number.
  The sweep, a hold and another reservation all ask for one of these, so none takes it.
  An order that has given its number back and acts on it again breaks exactly this,
  which is why the property has `astray`.
* `KycInv`: a session past the attestation, in the store or in a request's copy, is
  of a customer who was attested (`Passed`), and each call of a request is made
  from the step it belongs to (`CopyPassed`). An attestation is never taken back,
  so a stale copy is as good as a fresh one: this is what lets the proof ignore
  how copies overwrite each other.
* `Accounted` for the refinement: a number that is neither available nor held is hard,
  so `hold_msisdn`, which takes any row that names its own open order, takes no line's.
  `Resume` and `Open` map to `TakeHold` or nothing, `Cancel` and `Sweep` to `Cancel` and
  `Lapse` or nothing (a sweep frees only what has lapsed by `HoldInv`), `Provision` to
  `StartLine`; a failed decomposition, and whatever ends an order that has its number, to
  `EndLine`, with the number free or lost; a release by an order that lost it to `Recover`.

`PromoSagaProofs` proves, for any number of promotions, codes, customers, orders,
requests, deliveries and faults, whatever loyalty can revoke beyond a claim:

* `TypeCorrect`: `Spec => []TypeOK`;
* `OneLinePerOffer`: `Spec => []OfferBuysOneLine`;
* `EntitlementsAreUsed`: `Spec => []OnlyDeclinesBurn`;
* `SaleIsLinked`: `Spec => []ActiveIsLinked`.

The assumptions are `LoyaltyAssumption` and `PromoAssumption` (`None` is no value,
the kinds of codes are the three of the API, loyalty can revoke a claim, an event
is given at least once).

* `Coded` makes `TypeOK` inductive: what is to be discounted has a code, and a
  handler works on an order in progress.
* `SaleInv`: a claim and its offer name each other, the offer is the one the order
  was stamped with or its own (`ClaimsMatch`), and a discount is promised or sold
  only on a claim (`DiscountsClaimed`). Two lines on one offer would be two orders
  that the offer names.
* `BurnInv`, as long as nothing was lost: where a handler is says whether there is a
  line and a claim (`NothingHangs`), so a claim is in use, has a handler that will use
  or revoke it, or was revoked after a decline (`ClaimsInUse`). `OnlyDeclinesBurn` is
  the part of it that a reader asks for.
* `LinkInv`: a request that is past a call of the creation has made it, and loyalty
  forgets no definition or code (`LinksGrow`). So it does not matter which of two
  overlapping creations activates the promotion.

`PaymentProofs` proves, for any number of cards, attempts, requests, deliveries and
faults:

* `TypeCorrect`: `Spec => []TypeOK`;
* `StagedAtMostOnce`: `Spec => []StagedOnce`;
* `CapNearlyHolds`: `Spec => []CapHolds`;
* `MoneyIsAccounted`: `Spec => []MoneyAccounted`;
* `PaymentKeepsPromise`: `Spec` implements `ChargeOutcome!Spec`.

The assumption is `PaymentAssumption` (finitely many rows, attempts and requests, at
least one request, a cap of at least one, natural bounds).

* `HookInv`: a delivery that has inserted an event's row is alone with it, and the
  row was not committed before (`HeldOnce`). That is the primary key's wait.
* `CapInv`: the cards, and the requests that have counted and not inserted yet, are
  together fewer than the cap and the requests. An insert moves one request from
  the second term to the first, and a count finds fewer cards than the cap.
* `MoneyInv`: an attempt has money or a row only once its number was given out
  (`Numbered`); a request waiting to write its row has a number of its own and
  knows what the provider said, or that it is still at it (`InHand`); the attempts
  with neither row nor request were each paid for by a dropped one (`OrphansPaid`).
* The refinement maps `Send` to `Try`, `Conclude` to `Conclude`, `Record` to `Write`,
  the first staging of an event to `Tell` and all else to stuttering. `Send` needs
  that a number is new to the provider, which is `Numbered` for the number it takes
  and `Tried` (a number given out has an intent) for `Write`; `Tell` needs that what
  a delivery handles has happened (`HooksIssued`) and stays so, since an end is final
  (`IssuedStays`), and that it was not told before (`StagedOnce`, `HookInv`).

`PortalAccountProofs` proves, for any number of accounts, customers, addresses,
change rows and requests:

* `TypeCorrect`: `Spec => []TypeOK`;
* `AddressesAgree`: `Spec => []EmailsAgree`;
* `OneAccountEach`: `Spec => []LinksOneToOne`.

The assumption is `AccountAssumption` (`None` and `Gone` are no values, change rows
are numbered).

* For `TypeCorrect` the count of pending changes becomes a statement about pairs of
  rows (`PendingOnce`), since nothing bounds the rows; `Filled` says that no row is
  there by halves.
* `AccountInv`, until a link is overwritten: the two properties are proved
  together. That links are one to one follows from the unique addresses of accounts
  (`OneAddressEach`) and the agreement of both copies (`Agreed`); the agreement
  needs what each request has read to hold until its commit in some form
  (`StillTrue`), e.g. that a customer about to be linked still has the account's
  address unless the account has got a customer meanwhile.

Only model-checked: the liveness properties `EverythingSettles`, `OrderSettles`,
`DueIsAttended` and `RecordedIsSettled`, and the fair part of `Outbox!PromiseKept`
(fairness is out of the prover's reach). No module declares a RECURSIVE operator.
`PublishedReachedBroker` is what a document says and the code does not do; there is
nothing to prove.

The invariants above were checked by TLC on the instances of section 3 before they
were proved. Where the model has a bound (copies, faults, changes, the clock) the
theorems hold for every value of it.

## 6. Plan

1. Event plane: `Outbox`, `EventEffect`. Done, proved.
2. Order plane: `OrderFulfilment`. Done, proved.
3. Subscriptions: `Subscription`. Done, proved.
4. Usage: `UsagePipeline`. Done, proved.
5. Numbers and signup: `NumberPool`, `Signup`. Done, proved.
6. Promotions: `Loyalty`, `PromoSaga`. Done, proved.
7. Payments: `Payment`. Done, proved.
8. Portal account: `PortalAccount`. Done, proved.
9. What payment promises: `ChargeOutcome`. Done, proved.
10. What the pool promises: `NumberLife`. Done, proved.
11. What subscription promises its customer over a period (due, charged, renewed or
    blocked, once), and what the discount saga promises loyalty, on the same pattern.

### Not modelled

* Cases, tickets, port requests: transition tables with one caller.
* Sessions, codes, attempt limits, step-up grants and pending actions of
  `bss-portal-auth`: they decide who may make a call, and the models let any call
  be made.
* The `order.stuck` sweeper: it reports, and two replicas may both report.
* Quarantine, ranges and bulk import of numbers; offerings and prices: reference
  data, one operator, one statement.
* The agent loop and conversations (`bss-orchestrator`, `bss-cockpit`): control is
  decided by a language model.
* HTTP clients, request attribution, pool, tracing, rendering, search, command
  parsing, scenarios, conformance. They are most of the repository's lines, and
  keep no state: where they fail, the models have an answer that is an error or
  that never comes.

## 7. Running

    tlc -workers 2 -config OutboxSafety.cfg MCOutbox
    tlc -workers 2 -config FulfilmentRaces.cfg MCOrderFulfilment
    tlc -workers 2 -config SubscriptionRaces.cfg MCSubscription
    tlc -workers 2 -config UsagePipeline.cfg MCUsagePipeline
    tlc -workers 2 -config SignupFunnel.cfg MCSignup
    tlc -workers 2 -config PromoSaga.cfg MCPromoSaga
    tlc -workers 2 -config Payments.cfg MCPayment
    tlc -workers 2 -config PortalAccount.cfg MCPortalAccount
    tlapm OutboxProofs.tla
    tlapm OrderFulfilmentProofs.tla
    tlapm SubscriptionProofs.tla
    tlapm UsagePipelineProofs.tla
    tlapm SignupProofs.tla
    tlapm PromoSagaProofs.tla
    tlapm PaymentProofs.tla
    tlapm PortalAccountProofs.tla

`OutboxLiveness.cfg`, `OutboxLoss.cfg`, `FulfilmentTasks.cfg` and
`FulfilmentLiveness.cfg` go with the modules of their names. A run takes up to
three minutes.
