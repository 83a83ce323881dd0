------------------------------- MODULE Payment -------------------------------
(***************************************************************************)
(* The payment service, for one customer: cards on file, charges through    *)
(* the tokenizer (mock or Stripe), the mock-to-Stripe cutover, and Stripe's *)
(* webhooks.                                                                *)
(*                                                                         *)
(* A charge reads the card outside any transaction, calls the provider      *)
(* inside one, and writes the attempt last: the money moves before the row  *)
(* exists.  A webhook is one transaction keyed by the event's id; it never  *)
(* writes an attempt.  Requests run concurrently; any of them may be        *)
(* dropped (its caller hangs up after five seconds, the database refuses,   *)
(* the process restarts), and its transaction is then rolled back.          *)
(***************************************************************************)
EXTENDS Naturals, FiniteSets

CONSTANTS
    Method,       \* rows of payment_method, in the order of their sequence: 1..n
    Attempt,      \* rows of payment_attempt, likewise
    Request,      \* requests the service works on at the same time
    Delivery,     \* webhook deliveries it works on at the same time
    Kind,         \* the webhook events enumerated
    MaxMethods,   \* MAX_METHODS_PER_CUSTOMER
    MaxMoves,     \* bound: changes of the default card
    MaxFaults     \* bound: charges dropped after the provider was called

ASSUME PaymentAssumption ==
    /\ Method \subseteq Nat /\ IsFiniteSet(Method)
    /\ Attempt \subseteq Nat /\ IsFiniteSet(Attempt)
    /\ IsFiniteSet(Request) /\ Request # {}
    /\ Kind \subseteq {"charge.succeeded", "charge.failed", "payment_intent.payment_failed",
                      "charge.refunded", "charge.dispute.created"}
    /\ MaxMethods \in Nat \ {0}
    /\ MaxMoves \in Nat
    /\ MaxFaults \in Nat

VARIABLES
    adapter,      \* the tokenizer this process was started with
    method,       \* Method -> row
    cached,       \* payment.customer holds the customer's Stripe reference
    attempt,      \* Attempt -> status of the committed row
    used,         \* attempt ids the sequence has given out
    intent,       \* Attempt -> the provider's PaymentIntent under key ATT-{attempt}-r0
    request,      \* Request -> what it holds in memory
    hook,         \* Delivery -> the event whose row it has inserted
    outcome,      \* Event -> process_outcome of the committed webhook_event row
    staged,       \* Event -> domain events its handling has staged
    moved,        \* changes of the default so far
    faults

vars == <<adapter, method, cached, attempt, used, intent, request, hook, outcome, staged, moved, faults>>
cards == <<method, cached>>
money == <<attempt, used, intent>>
hooks == <<hook, outcome, staged>>
bounds == <<moved, faults>>

Provider == {"mock", "stripe"}
Event == Attempt \X Kind
NoRow == [status |-> "none", provider |-> "mock", default |-> FALSE]
NoIntent == [state |-> "none", by |-> "mock"]
Idle == [at |-> "idle"]
NoEvent == <<0, "none">>

Phase ==
    {Idle}
    \union [at : {"checked"}]
    \union [at : {"sent"}, a : Attempt, saw : {"succeeded", "failed", "processing"}]
    \union [at : {"counted"}, default : BOOLEAN]
    \union [at : {"cleared"}, m : Method, old : SUBSET Method]
    \union [at : {"expiring"}, old : SUBSET Method]

Active == {m \in Method : method[m].status = "active"}
Defaults == {m \in Method : method[m].default}
Sending == {r \in Request : request[r].at = "sent"}

Init ==
    /\ adapter \in Provider
    /\ method = [m \in Method |-> NoRow]
    /\ cached = FALSE
    /\ attempt = [a \in Attempt |-> "none"]
    /\ used = {}
    /\ intent = [a \in Attempt |-> NoIntent]
    /\ request = [r \in Request |-> Idle]
    /\ hook = [d \in Delivery |-> NoEvent]
    /\ outcome = [e \in Event |-> "none"]
    /\ staged = [e \in Event |-> 0]
    /\ faults = 0 /\ moved = 0

Hold(r, what) == request' = [request EXCEPT ![r] = what]
Done(r) == Hold(r, Idle)
Begin(r, what) == request[r] = Idle /\ Hold(r, what)
-----------------------------------------------------------------------------
(* Charges *)

(* The checks, and the Stripe reference without which stripe_charge fails. *)
Charge(r, m) ==
    /\ m \in Active
    /\ method[m].provider = adapter
    /\ adapter = "stripe" => cached
    /\ Begin(r, [at |-> "checked"])
    /\ UNCHANGED <<adapter, cards, money, hooks, bounds>>

(* Mutant: the id is the next one that has no row. *)
NextAttempt_ByRow ==
    {a \in Attempt : attempt[a] = "none" /\ \A b \in Attempt : attempt[b] = "none" => a <= b}

(* The attempt's id is the sequence's next one, never given out again.        *)
NextAttempt == {a \in Attempt \ used : \A b \in Attempt \ used : a <= b}

(* The provider makes the PaymentIntent; an off-session Stripe one may still be *)
(* processing when it answers.                                                  *)
Send(r) ==
    /\ request[r].at = "checked"
    /\ \E a \in NextAttempt,
          answer \in {"succeeded", "failed"} \union (IF adapter = "stripe" THEN {"processing"} ELSE {}) :
        /\ used' = used \union {a}
        /\ intent' = [intent EXCEPT ![a] = [state |-> answer, by |-> adapter]]
        /\ Hold(r, [at |-> "sent", a |-> a, saw |-> answer])
    /\ UNCHANGED <<adapter, cards, attempt, hooks, bounds>>

(* Mutants: an answer that is no decline is an approval; Stripe's word is kept. *)
StatusOf_Raw(answer) == answer
StatusOf_Lenient(answer) == IF answer = "failed" THEN "declined" ELSE "approved"

StatusOf(answer) ==
    CASE answer = "succeeded" -> "approved"
      [] answer = "failed" -> "declined"
      [] OTHER -> "errored"

(* insert_attempt, its event, commit. *)
Record(r) ==
    /\ request[r].at = "sent"
    /\ attempt' = [attempt EXCEPT ![request[r].a] = StatusOf(request[r].saw)]
    /\ Done(r)
    /\ UNCHANGED <<adapter, cards, used, intent, hooks, bounds>>

(* A request ends in an error: nothing it did is kept, except at the provider. *)
Drop(r) ==
    /\ request[r] # Idle
    /\ faults' = faults + (IF r \in Sending THEN 1 ELSE 0)
    /\ faults' <= MaxFaults
    /\ Done(r)
    /\ UNCHANGED <<adapter, cards, money, hooks, moved>>

(* Stripe concludes a processing intent. *)
Conclude(a) ==
    /\ intent[a].state = "processing"
    /\ \E s \in {"succeeded", "failed"} : intent' = [intent EXCEPT ![a].state = s]
    /\ UNCHANGED <<adapter, cards, attempt, used, request, hooks, bounds>>
-----------------------------------------------------------------------------
(* Cards on file *)

(* Mutant: one card too many. *)
WithinCap_OffByOne == Cardinality(Active) <= MaxMethods

WithinCap == Cardinality(Active) < MaxMethods

(* The count is read, and the connection given back, before the row is inserted. *)
Register(r) ==
    /\ WithinCap
    /\ Begin(r, [at |-> "counted", default |-> Active = {}])
    /\ UNCHANGED <<adapter, cards, money, hooks, bounds>>

(* ensure_customer with the running adapter: the mock keeps no reference, Stripe's *)
(* is cached as well as can be.                                                    *)
Cache ==
    \/ adapter = "stripe" /\ cached' = TRUE /\ UNCHANGED faults
    \/ adapter = "stripe" /\ ~cached /\ faults < MaxFaults /\ faults' = faults + 1 /\ UNCHANGED cached
    \/ adapter = "mock" /\ UNCHANGED <<cached, faults>>

EnsureCustomer ==
    /\ Cache
    /\ UNCHANGED <<adapter, method, money, request, hooks, moved>>

(* The token's provider is what the portal says, whatever the adapter. *)
InsertMethod(r) ==
    /\ request[r].at = "counted"
    /\ \E m \in Method, p \in Provider :
        /\ method[m] = NoRow
        /\ \A n \in Method : method[n] = NoRow => m <= n
        /\ method' = [method EXCEPT ![m] =
               [status |-> "active", provider |-> p, default |-> request[r].default]]
        /\ IF p = "stripe" THEN Cache ELSE UNCHANGED <<cached, faults>>
    /\ Done(r)
    /\ UNCHANGED <<adapter, money, hooks, moved>>

(* The first UPDATE clears the defaults of its snapshot; both are written at the commit. *)
(* An expired card may be made the default: only a removed one is refused.               *)
SetDefault(r, m) ==
    /\ method[m].status \notin {"none", "removed"}
    /\ moved < MaxMoves /\ moved' = moved + 1
    /\ Begin(r, [at |-> "cleared", m |-> m, old |-> Defaults \ {m}])
    /\ UNCHANGED <<adapter, cards, money, hooks, faults>>

CommitDefault(r) ==
    /\ request[r].at = "cleared"
    /\ method' = [m \in Method |->
           CASE m = request[r].m -> [method[m] EXCEPT !.default = TRUE]
             [] m \in request[r].old -> [method[m] EXCEPT !.default = FALSE]
             [] OTHER -> method[m]]
    /\ Done(r)
    /\ UNCHANGED <<adapter, cached, money, hooks, bounds>>

(* The status is written whatever it has become since it was read. *)
Remove(m) ==
    /\ method[m].status \notin {"none", "removed"}
    /\ method' = [method EXCEPT ![m].status = "removed"]
    /\ UNCHANGED <<adapter, cached, money, request, hooks, bounds>>

(* bss payment cutover: the mock cards selected are expired by id, whatever became of *)
(* them since.                                                                        *)
Cutover(r) ==
    /\ LET mocks == {m \in Active : method[m].provider = "mock"}
       IN  mocks # {} /\ Begin(r, [at |-> "expiring", old |-> mocks])
    /\ UNCHANGED <<adapter, cards, money, hooks, bounds>>

CommitCutover(r) ==
    /\ request[r].at = "expiring"
    /\ method' = [m \in Method |-> IF m \in request[r].old
                                   THEN [method[m] EXCEPT !.status = "expired"] ELSE method[m]]
    /\ Done(r)
    /\ UNCHANGED <<adapter, cached, money, hooks, bounds>>

(* The operator restarts the service, perhaps with the other adapter. *)
Restart ==
    /\ adapter' \in Provider
    /\ faults' = faults + Cardinality(Sending)
    /\ faults' <= MaxFaults
    /\ request' = [r \in Request |-> Idle]
    /\ hook' = [d \in Delivery |-> NoEvent]
    /\ UNCHANGED <<cards, money, outcome, staged, moved>>
-----------------------------------------------------------------------------
(* Webhooks *)

FailedEnd == {"charge.failed", "payment_intent.payment_failed"}
TerminalCharge == {"charge.succeeded"} \union FailedEnd

(* What Stripe sends, as often as it likes: the end of an intent, which is two events when *)
(* it failed; a refund or a dispute of one that succeeded.                                 *)
Issued(e) ==
    LET i == intent[e[1]]
    IN  /\ i.by = "stripe"
        /\ i.state = (IF e[2] \in FailedEnd THEN "failed" ELSE "succeeded")

(* Mutant: the event's row is looked up, and inserted with the outcome. *)
Claimable_Unlocked(e) == outcome[e] = "none"

(* INSERT .. ON CONFLICT DO NOTHING: one transaction at a time holds the event's key. *)
Claimable(e) == outcome[e] = "none" /\ \A d \in Delivery : hook[d] # e

PersistEvent(d, e) ==
    /\ hook[d] = NoEvent
    /\ Issued(e)
    /\ Claimable(e)
    /\ hook' = [hook EXCEPT ![d] = e]
    /\ UNCHANGED <<adapter, cards, money, request, outcome, staged, bounds>>

Expected(e) == IF e[2] = "charge.succeeded" THEN "approved" ELSE "declined"

(* An attempt that is not there yet is none of ours. *)
RouteTerminalCharge(e) ==
    CASE attempt[e[1]] = "none" -> "noop"
      [] attempt[e[1]] = Expected(e) -> "reconciled"
      [] OTHER -> "drift"

Route(e) ==
    IF e[2] \in TerminalCharge THEN RouteTerminalCharge(e) ELSE "reconciled"

Stages(e) == Route(e) = "drift" \/ e[2] \in {"charge.refunded", "charge.dispute.created"}

(* Route, stage, mark_processed and commit. *)
HandleEvent(d) ==
    /\ hook[d] # NoEvent
    /\ LET e == hook[d]
       IN  /\ outcome' = [outcome EXCEPT ![e] = Route(e)]
           /\ staged' = [staged EXCEPT ![e] = @ + (IF Stages(e) THEN 1 ELSE 0)]
    /\ hook' = [hook EXCEPT ![d] = NoEvent]
    /\ UNCHANGED <<adapter, cards, money, request, bounds>>

(* The transaction fails: 500, Stripe sends the event again. *)
FailEvent(d) ==
    /\ hook[d] # NoEvent
    /\ hook' = [hook EXCEPT ![d] = NoEvent]
    /\ UNCHANGED <<adapter, cards, money, request, outcome, staged, bounds>>
-----------------------------------------------------------------------------
Requests(r) ==
    \/ \E m \in Method : Charge(r, m) \/ SetDefault(r, m)
    \/ Send(r)
    \/ Record(r)
    \/ Register(r)
    \/ InsertMethod(r)
    \/ CommitDefault(r)
    \/ Cutover(r)
    \/ CommitCutover(r)
    \/ Drop(r)

Webhooks(d) ==
    \/ \E e \in Event : PersistEvent(d, e)
    \/ HandleEvent(d)
    \/ FailEvent(d)

Next ==
    \/ \E r \in Request : Requests(r)
    \/ \E d \in Delivery : Webhooks(d)
    \/ \E a \in Attempt : Conclude(a)
    \/ \E m \in Method : Remove(m)
    \/ EnsureCustomer
    \/ Restart

Spec == Init /\ [][Next]_vars
-----------------------------------------------------------------------------
TypeOK ==
    /\ adapter \in Provider
    /\ method \in [Method -> [status : {"none", "active", "removed", "expired"},
                              provider : Provider, default : BOOLEAN]]
    /\ cached \in BOOLEAN
    /\ attempt \in [Attempt -> {"none", "approved", "declined", "errored"}]
    /\ used \subseteq Attempt
    /\ intent \in [Attempt -> [state : {"none", "processing", "succeeded", "failed"}, by : Provider]]
    /\ request \in [Request -> Phase]
    /\ hook \in [Delivery -> Event \union {NoEvent}]
    /\ outcome \in [Event -> {"none", "noop", "reconciled", "drift"}]
    /\ staged \in [Event -> Nat]
    /\ moved \in 0..MaxMoves
    /\ faults \in 0..MaxFaults

(* Money and rows agree: an approved attempt was taken and a declined one was not, and  *)
(* what the provider took without a row for it is being recorded or was dropped, one    *)
(* charge for each fault (charge: the provider is called before the row is written).    *)
MoneyAccounted ==
    /\ \A a \in Attempt : /\ attempt[a] = "approved" => intent[a].state = "succeeded"
                          /\ attempt[a] = "declined" => intent[a].state = "failed"
    /\ LET taken == {a \in Attempt : intent[a].state = "succeeded" /\ attempt[a] = "none"}
           held == {request[r].a : r \in Sending}
       IN  Cardinality(taken \ held) <= faults

(* However often Stripe delivers an event, at the same time or after a failure, its domain *)
(* event is staged once, and only when the row says it was handled (persist_event and      *)
(* mark_processed in one transaction).                                                     *)
StagedOnce ==
    \A e \in Event : staged[e] <= (IF outcome[e] \in {"reconciled", "drift"} THEN 1 ELSE 0)

(* The cap on active cards is read outside the insert: it gives by one for each request  *)
(* in flight and no more (register_method, check_at_most_n_methods).                     *)
CapHolds == Cardinality(Active) < MaxMethods + Cardinality(Request)

(* What payment promises to those who charge and to those who listen. *)
Promise == INSTANCE ChargeOutcome WITH
    money <- [a \in Attempt |-> intent[a].state],
    row <- attempt,
    told <- {e \in Event : staged[e] > 0}

(* One attempt is one charge and its end is final; drift is reported only of a charge     *)
(* whose row is "errored", once for each event of its end: twice, when it failed, as       *)
(* charge.failed and payment_intent.payment_failed are routed alike (charge,               *)
(* route_terminal_charge).                                                                 *)
PromiseKept == Promise!Spec
=============================================================================
