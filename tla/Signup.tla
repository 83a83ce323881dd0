------------------------------- MODULE Signup --------------------------------
(***************************************************************************)
(* The self-serve signup funnel (portals/self-serve/src/signup.rs) over the *)
(* number pool: open order, customer, KYC, card, order, activation.         *)
(*                                                                         *)
(* A handler takes a copy of the in-memory session, calls services one     *)
(* after the other, and writes the copy back over whatever is there.  Two  *)
(* requests of one session may be under way, and a request may stop        *)
(* between any two calls: the client disconnects, or a call is answered by *)
(* a time-out or a 5xx, with its effect or without.                        *)
(*                                                                         *)
(* COM, SOM and subscription are here as far as they use the number; their *)
(* detail is in OrderFulfilment and Subscription.  A session enters the    *)
(* store when signup_submit answers: nobody knows its id before.           *)
(***************************************************************************)
EXTENDS NumberPool, FiniteSets

CONSTANTS
    Session,      \* ids are numbers, handed out in order, and a session that ended
                  \* gives its number to the next
    Request,      \* requests the portal handles at the same time
    Customer,
    Order,
    Deployments,  \* sets of the steps done on a hosted page: "kyc" (Didit), "card" (Stripe)
    MaxFaults     \* bound: requests that stop, sessions lost, customers deleted out of
                  \*        band, attestations that cannot be fetched, rollbacks

ASSUME SignupAssumption ==
    /\ Session \union Customer \union Order \subseteq Nat \ {0}
    /\ None \notin Nat
    /\ Deployments \subseteq SUBSET {"kyc", "card"}
    /\ MaxFaults \in Nat

VARIABLES
    hosted,       \* the deployment
    store,        \* signup_store: a session, or NoSession
    requests,     \* what each request is about to do, with its copy of the session
    decision,     \* kyc_webhook_corroboration, by session
    link,         \* portal_auth.identity.customer_id
    customers,    \* [status, owner, verified, card]
    orders,       \* COM orders: [state, customer, number]
    faults

(* History: what cannot be read off the rows. *)
VARIABLES
    crossed,      \* open orders resumed between the two statements of their cancellation
    given,        \* orders that have given their number back
    astray        \* an order that had given its number back released it once more, or
                  \* activated a line on it

portal == <<store, requests>>
people == <<link, customers, decision>>
numbering == <<given, astray>>
vars == <<pool, portal, people, orders, hosted, faults, crossed, numbering>>

SignupSession ==
    [owner : Owner, number : Number,
     step : {"customer", "kyc", "handoff", "cof", "order", "activation", "completed"},
     openOrder : OpenOrder \union {None}, customer : Customer \union {None},
     order : Order \union {None}]
Failed == [step |-> "failed"]
NoSession == [step |-> "none"]      \* as well: one that has ended, as no handler goes on with it

Call == {"open", "lookup", "create", "bind", "attest", "card", "order", "submit", "write", "close"}
InFlight == [at : Call, id : Session, sig : SignupSession \union {Failed},
             linked : Customer \union {None}]
Cancelling == [at : {"cancel", "cancelling"}, openOrder : OpenOrder]
Terminating == [at : {"release", "terminate"}, order : Order]
Idle == [at |-> "idle"]

Nobody == [status |-> "none", owner |-> None, verified |-> FALSE, card |-> FALSE]
NoOrder == [state |-> "none", customer |-> None, number |-> None]

TypeOK ==
    /\ PoolTypeOK
    /\ hosted \in Deployments
    /\ store \in [Session -> SignupSession \union {NoSession}]
    /\ requests \in [Request -> InFlight \union Cancelling \union Terminating \union {Idle}]
    /\ decision \in [Session -> {"pending", "approved", "declined", "overtaken"}]
    /\ link \in [Owner -> Customer \union {None}]
    /\ customers \in [Customer -> [status : {"none", "active", "gone"}, owner : Owner \union {None},
                                   verified : BOOLEAN, card : BOOLEAN]]
    /\ orders \in [Order -> [state : {"none", "created", "submitted", "reserved", "charging",
                                      "retried", "completed", "terminated", "failed", "parked"},
                             customer : Customer \union {None}, number : Number \union {None}]]
    /\ faults \in 0 .. MaxFaults
    /\ crossed \subseteq OpenOrder
    /\ given \subseteq Order
    /\ astray \in BOOLEAN

Init ==
    /\ PoolInit
    /\ hosted \in Deployments
    /\ store = [s \in Session |-> NoSession]
    /\ requests = [r \in Request |-> Idle]
    /\ decision = [s \in Session |-> "pending"]
    /\ link = [w \in Owner |-> None]
    /\ customers = [c \in Customer |-> Nobody]
    /\ orders = [o \in Order |-> NoOrder]
    /\ faults = 0
    /\ crossed = {} /\ given = {} /\ astray = FALSE

Fault == faults < MaxFaults /\ faults' = faults + 1

At(r, call) == requests[r].at = call
Sig(r) == requests[r].sig

(* The request goes on to its next call, or to the write, with its copy of the session. *)
Proceed(r, call, sig) == requests' = [requests EXCEPT ![r].at = call, ![r].sig = sig]
Conclude(r, sig) ==
    requests' = [requests EXCEPT ![r].at = "write", ![r].sig = sig, ![r].linked = None]
Fail(r) == Conclude(r, Failed)

OnlyRequests == UNCHANGED <<pool, store, people, orders, hosted, faults, crossed, numbering>>

(* resolve: a request of session s starts with a copy of it. *)
Resolve(r, s, call, sig) ==
    /\ requests[r] = Idle
    /\ requests' = [requests EXCEPT ![r] =
                      [at |-> call, id |-> s, sig |-> sig, linked |-> None]]
    /\ OnlyRequests

-----------------------------------------------------------------------------
(* signup_submit *)

Serves(r, s) == requests[r].at \in Call /\ requests[r].id = s

Submit(r, s, w, n) ==
    /\ requests[r] = Idle
    /\ IsNext(s, {t \in Session : store[t] = NoSession
                                  /\ \A q \in Request : ~ Serves(q, t)})
    /\ requests' = [requests EXCEPT ![r] =
          [at |-> "open", id |-> s, linked |-> link[w],
           sig |-> [owner |-> w, number |-> n, step |-> "customer",
                    openOrder |-> None, customer |-> None, order |-> None]]]
    /\ decision' = [decision EXCEPT ![s] = "pending"]
    /\ UNCHANGED <<pool, store, link, customers, orders, hosted, faults, crossed, numbering>>

BeingCancelled(oo) ==
    {p \in {oo} : \E q \in Request : At(q, "cancelling") /\ requests[q].openOrder = p}

OpenOrderAnswered(r) ==
    LET sig == Sig(r)
        next == IF requests[r].linked = None THEN "create" ELSE "lookup"
    IN  /\ At(r, "open")
        /\ \/ \E oo \in OpenOrder :
                /\ \/ Resume(sig.owner, sig.number, oo) /\ crossed' = crossed \union BeingCancelled(oo)
                   \/ Open(sig.owner, sig.number, oo) /\ UNCHANGED crossed
                /\ Proceed(r, next, [sig EXCEPT !.openOrder = oo])
           \/ /\ OpenRefused(sig.owner, sig.number)
              /\ Fail(r) /\ UNCHANGED <<numbers, openOrders, crossed>>
        /\ UNCHANGED <<clock, store, people, orders, hosted, faults, numbering>>

(* Mutant: the returning customer's attestation is not looked at. *)
ResumeCustomer_CardOnly(r) ==
    LET c == requests[r].linked
        step == IF ~ customers[c].card THEN "cof" ELSE "order"
    IN  /\ At(r, "lookup")
        /\ customers[c].status = "active"
        /\ Conclude(r, [Sig(r) EXCEPT !.customer = c, !.step = step])
        /\ OnlyRequests

(* A returning customer goes on at the first step that is missing. *)
ResumeCustomer(r) ==
    LET c == requests[r].linked
        step == IF ~ customers[c].verified THEN "kyc"
                ELSE IF ~ customers[c].card THEN "cof" ELSE "order"
    IN  /\ At(r, "lookup")
        /\ customers[c].status = "active"
        /\ Conclude(r, [Sig(r) EXCEPT !.customer = c, !.step = step])
        /\ OnlyRequests

(* customer.kyc.not_found: the link points at a customer that is gone, and is kept for *)
(* the bind to replace.                                                                *)
DropGhost(r) ==
    /\ At(r, "lookup")
    /\ customers[requests[r].linked].status = "gone"
    /\ requests' = [requests EXCEPT ![r].at = "create"]
    /\ OnlyRequests

Registered(w) == \E c \in Customer : customers[c].status = "active" /\ customers[c].owner = w

CreateCustomer(r) ==
    LET w == Sig(r).owner
    IN  /\ At(r, "create")
        /\ \/ /\ Registered(w)                       \* customer.create.email_unique
              /\ Fail(r) /\ UNCHANGED customers
           \/ /\ ~ Registered(w)
              /\ \E c \in Customer :
                    /\ IsNext(c, {d \in Customer : customers[d].status = "none"})
                    /\ customers' = [customers EXCEPT ![c] =
                          [status |-> "active", owner |-> w, verified |-> FALSE, card |-> FALSE]]
                    /\ Proceed(r, "bind", [Sig(r) EXCEPT !.customer = c])
        /\ UNCHANGED <<pool, store, link, decision, orders, hosted, faults, crossed, numbering>>

(* link_to_customer, or relink_orphaned_to_customer: a refusal is only logged. *)
Linkable(r) == link[Sig(r).owner] \in {None, requests[r].linked}

Bind(r) ==
    /\ At(r, "bind")
    /\ link' = IF Linkable(r) THEN [link EXCEPT ![Sig(r).owner] = Sig(r).customer] ELSE link
    /\ Conclude(r, [Sig(r) EXCEPT !.step = "kyc"])
    /\ UNCHANGED <<pool, store, customers, decision, orders, hosted, faults, crossed, numbering>>

-----------------------------------------------------------------------------
(* The steps of the progress page *)

StepKyc(r, s) ==
    /\ store[s].step = "kyc"
    /\ \/ "kyc" \notin hosted /\ Resolve(r, s, "attest", store[s])
       \/ /\ "kyc" \in hosted
          /\ \/ Resolve(r, s, "write", [store[s] EXCEPT !.step = "handoff"])
             \/ Resolve(r, s, "write", Failed)          \* cap_exhausted, initiate_failed

KycPoll(r, s) ==
    /\ store[s].step = "handoff"
    /\ \/ decision[s] = "approved" /\ Resolve(r, s, "attest", store[s])
       \/ decision[s] = "declined" /\ Resolve(r, s, "write", Failed)

(* The provider's deliveries for a session it has been handed.  The last to arrive     *)
(* counts: an earlier status that is late overtakes the verdict, which is not sent     *)
(* again.                                                                              *)
KycWebhook(s) ==
    /\ store[s].step = "handoff"
    /\ \/ /\ decision[s] = "pending"
          /\ \E d \in {"approved", "declined"} : decision' = [decision EXCEPT ![s] = d]
       \/ /\ decision[s] \in {"approved", "declined"}
          /\ decision' = [decision EXCEPT ![s] = "overtaken"]
    /\ UNCHANGED <<pool, portal, link, customers, orders, hosted, faults, crossed, numbering>>

(* The document of an owner is registered once among the customers of crm. *)
Verifiable(c) ==
    /\ customers[c].status = "active"
    /\ \A d \in Customer : customers[d].status = "active" /\ customers[d].owner = customers[c].owner
                              => ~ customers[d].verified

Corroborated(r) == "kyc" \in hosted => decision[requests[r].id] = "approved"

(* crm looks at the delivery again: one that came after the fetch is a refusal. *)
Attest(r) ==
    LET c == Sig(r).customer
    IN  /\ At(r, "attest")
        /\ \/ /\ Corroborated(r) /\ Verifiable(c)
              /\ customers' = [customers EXCEPT ![c].verified = TRUE]
              /\ Conclude(r, [Sig(r) EXCEPT !.step = "cof"])
           \/ /\ ~ (Corroborated(r) /\ Verifiable(c))
              /\ Fail(r) /\ UNCHANGED customers
        /\ UNCHANGED <<pool, store, link, decision, orders, hosted, faults, crossed, numbering>>

(* fetch_attestation fails, and crm is not asked: the copy is written back at the step *)
(* it was read at.                                                                     *)
AttestationMissing(r) ==
    /\ At(r, "attest")
    /\ \/ ~ Corroborated(r) /\ UNCHANGED faults
       \/ "kyc" \in hosted /\ Fault
    /\ Conclude(r, Sig(r))
    /\ UNCHANGED <<pool, store, people, orders, hosted, crossed, numbering>>

(* The mock tokenizer, or the page of the provider and the way back from it; the step *)
(* of a session whose page is open accepts what the one before it does.               *)
StepCof(r, s) ==
    /\ "card" \notin hosted
    /\ store[s].step = "cof"
    /\ Resolve(r, s, "card", store[s])

CheckoutInit(r, s) ==
    /\ "card" \in hosted
    /\ store[s].step = "cof"
    /\ \/ Resolve(r, s, "write", store[s])
       \/ Resolve(r, s, "write", Failed)

CheckoutReturn(r, s) ==
    /\ "card" \in hosted
    /\ store[s].step = "cof"
    /\ \/ Resolve(r, s, "card", store[s])
       \/ Resolve(r, s, "write", Failed)

AddCard(r) ==
    LET c == Sig(r).customer
    IN  /\ At(r, "card")
        /\ \/ /\ customers[c].status = "active"
              /\ customers' = [customers EXCEPT ![c].card = TRUE]
              /\ Conclude(r, [Sig(r) EXCEPT !.step = "order"])
           \/ Fail(r) /\ UNCHANGED customers
        /\ UNCHANGED <<pool, store, link, decision, orders, hosted, faults, crossed, numbering>>

StepOrder(r, s) ==
    /\ store[s].step = "order"
    /\ Resolve(r, s, "order", store[s])

(* create_order of com looks for the customer and a card, not for the attestation. *)
CreateOrder(r) ==
    LET c == Sig(r).customer
    IN  /\ At(r, "order")
        /\ \/ /\ customers[c].status = "active" /\ customers[c].card
              /\ \E o \in Order :
                    /\ IsNext(o, {p \in Order : orders[p].state = "none"})
                    /\ orders' = [orders EXCEPT ![o] =
                          [state |-> "created", customer |-> c, number |-> Sig(r).number]]
                    /\ Proceed(r, "submit", [Sig(r) EXCEPT !.order = o])
           \/ Fail(r) /\ UNCHANGED orders
        /\ UNCHANGED <<pool, store, people, hosted, faults, crossed, numbering>>

SubmitOrder(r) ==
    LET o == Sig(r).order
    IN  /\ At(r, "submit")
        /\ \/ /\ orders' = [orders EXCEPT ![o].state = "submitted"]
              /\ Conclude(r, [Sig(r) EXCEPT !.step = "activation"])
           \/ Fail(r) /\ UNCHANGED orders
        /\ UNCHANGED <<pool, store, people, hosted, faults, crossed, numbering>>

(* com keeps an order completed after its line is gone. *)
StepPoll(r, s) ==
    /\ store[s].step = "activation"
    /\ \/ /\ orders[store[s].order].state \in {"completed", "terminated"}
          /\ Resolve(r, s, "write", [store[s] EXCEPT !.step = "completed"])
       \/ /\ orders[store[s].order].state = "failed"
          /\ Resolve(r, s, "write", Failed)

(* signup_store.update: the copy replaces whatever the session is by now. *)
Write(r) ==
    LET sig == Sig(r)
    IN  /\ At(r, "write")
        /\ store' = [store EXCEPT ![requests[r].id] =
                       IF sig.step \in {"completed", "failed"} THEN NoSession ELSE sig]
        /\ requests' = [requests EXCEPT ![r] =
                          IF sig.step = "completed" /\ sig.openOrder # None
                          THEN [@ EXCEPT !.at = "close"] ELSE Idle]
        /\ UNCHANGED <<pool, people, orders, hosted, faults, crossed, numbering>>

Close(r) ==
    /\ At(r, "close")
    /\ CompleteOpenOrder(Sig(r).openOrder)
    /\ requests' = [requests EXCEPT ![r] = Idle]
    /\ UNCHANGED <<clock, store, people, orders, hosted, faults, crossed, numbering>>

(* verify_email_login links an identity that lost its customer, by the address. *)
Login(w) ==
    /\ link[w] = None
    /\ \E c \in Customer : /\ customers[c].status = "active" /\ customers[c].owner = w
                           /\ link' = [link EXCEPT ![w] = c]
    /\ UNCHANGED <<pool, portal, customers, decision, orders, hosted, faults, crossed, numbering>>

Abandon(r) ==
    /\ requests[r] # Idle
    /\ Fault
    /\ requests' = [requests EXCEPT ![r] = Idle]
    /\ UNCHANGED <<pool, store, people, orders, hosted, crossed, numbering>>

(* The session is pruned after its time to live, or the portal restarts. *)
LoseSession(s) ==
    /\ store[s] # NoSession
    /\ Fault
    /\ store' = [store EXCEPT ![s] = NoSession]
    /\ UNCHANGED <<pool, requests, people, orders, hosted, crossed, numbering>>

-----------------------------------------------------------------------------
(* The open order page, the sweep, the clock *)

(* Bound: one cancellation at a time. *)
CancelLookup(r, w) ==
    /\ \A q \in Request : requests[q].at \notin {"cancel", "cancelling"}
    /\ requests[r] = Idle
    /\ \E oo \in OpenOf(w) :
          requests' = [requests EXCEPT ![r] = [at |-> "cancel", openOrder |-> oo]]
    /\ OnlyRequests

Cancel(r) ==
    /\ At(r, "cancel")
    /\ CancelOpenOrder(requests[r].openOrder)
    /\ requests' = [requests EXCEPT ![r] = Idle]
    /\ UNCHANGED <<clock, store, people, orders, hosted, faults, crossed, numbering>>

CancelUnmatched(r) ==
    /\ At(r, "cancel")
    /\ HoldsOf(requests[r].openOrder) = {}
    /\ requests' = [requests EXCEPT ![r].at = "cancelling"]
    /\ OnlyRequests

CancelCommit(r) ==
    /\ At(r, "cancelling")
    /\ CancelUnheld(requests[r].openOrder)
    /\ requests' = [requests EXCEPT ![r] = Idle]
    /\ UNCHANGED <<clock, store, people, orders, hosted, faults, crossed, numbering>>

Others == <<portal, people, orders, hosted, faults, crossed, numbering>>

Sweep == SweepExpired /\ UNCHANGED <<clock, Others>>
Advance == Tick /\ UNCHANGED Others

-----------------------------------------------------------------------------
(* What provisioning and subscription do with the number of an order *)

Unfulfilled == <<openOrders, clock, store, people, hosted, crossed>>

Becomes(o, state) ==
    /\ orders' = [orders EXCEPT ![o].state = state]
    /\ UNCHANGED <<requests, Unfulfilled>>

Taken(n) == numbers[n].status \in {"reserved", "assigned"}

(* Whoever calls it: release_msisdn does not ask whose the number is by now. *)
GiveBack(o) ==
    /\ ReleaseMsisdn(orders[o].number)
    /\ given' = given \union {o}
    /\ astray' = (astray \/ (o \in given /\ Taken(orders[o].number)))

KeepNumber == UNCHANGED <<numbers, numbering>>

Provision(o) ==
    /\ orders[o].state = "submitted"
    /\ ReserveNext(orders[o].number)
    /\ Becomes(o, "reserved") /\ UNCHANGED <<faults, numbering>>

(* The last delivery of the event fails too: it is parked, the order stays as it is. *)
NoNumber(o) ==
    /\ orders[o].state = "submitted"
    /\ ~ Claimable(orders[o].number)
    /\ Becomes(o, "parked") /\ KeepNumber /\ UNCHANGED faults

(* The transaction of the decomposition rolls back and the event is delivered again: no *)
(* eSIM, and the number is released; or that call, or one of its own, fails.            *)
DecompositionFails(o) ==
    /\ orders[o].state = "reserved" /\ o \notin given
    /\ Fault
    /\ \/ ReleaseMsisdn(orders[o].number) /\ UNCHANGED numbering
       \/ KeepNumber
    /\ Becomes(o, "submitted")

(* The release is outside the transaction: it may fail, or the transaction after it.    *)
ServiceFails(o) ==
    /\ orders[o].state = "reserved"
    /\ \/ GiveBack(o) /\ Becomes(o, "failed")
       \/ GiveBack(o) /\ Becomes(o, "reserved")
       \/ KeepNumber /\ Becomes(o, "failed")
    /\ IF o \in given THEN UNCHANGED faults ELSE Fault

(* subscription.create, at the first delivery and at every other: the number must be    *)
(* taken, by whom is not asked; then the card is charged.                               *)
StartActivation(o) ==
    /\ \/ orders[o].state = "reserved" /\ o \notin given
       \/ orders[o].state = "retried"
    /\ Taken(orders[o].number)
    /\ Becomes(o, "charging") /\ KeepNumber /\ UNCHANGED faults

(* The unique index on the number of the subscriptions that are not terminated. *)
LineExists(o) ==
    \E p \in Order \ {o} :
        orders[p].state = "completed" /\ orders[p].number = orders[o].number

(* The assignment comes before the insert and may fail; a refused insert is retried with *)
(* the event.                                                                            *)
Activate(o) ==
    /\ orders[o].state = "charging"
    /\ \/ AssignMsisdn(orders[o].number) /\ UNCHANGED faults
       \/ UNCHANGED numbers /\ Fault
    /\ Becomes(o, IF LineExists(o) THEN "retried" ELSE "completed")
    /\ astray' = (astray \/ o \in given) /\ UNCHANGED given

(* The number is released, the call fails, and the event is delivered again. *)
ActivationDeclined(o) ==
    /\ orders[o].state = "charging"
    /\ Fault
    /\ GiveBack(o) \/ KeepNumber                     \* the release fails, or the charge
    /\ Becomes(o, "retried")

(* The deliveries are used up. *)
Park(o) ==
    /\ \/ orders[o].state = "retried"
       \/ orders[o].state = "reserved" /\ (o \in given \/ ~ Taken(orders[o].number))
    /\ Becomes(o, "parked") /\ KeepNumber /\ UNCHANGED faults

(* terminate: the state is read without a lock, the number released, the state set. *)
TerminateRead(r, o) ==
    /\ requests[r] = Idle
    /\ orders[o].state = "completed"
    /\ requests' = [requests EXCEPT ![r] = [at |-> "release", order |-> o]]
    /\ OnlyRequests

TerminateRelease(r) ==
    /\ At(r, "release")
    /\ \/ GiveBack(requests[r].order) /\ UNCHANGED faults
       \/ KeepNumber /\ Fault
    /\ requests' = [requests EXCEPT ![r].at = "terminate"]
    /\ UNCHANGED <<orders, Unfulfilled>>

TerminateCommit(r) ==
    /\ At(r, "terminate")
    /\ orders' = [orders EXCEPT ![requests[r].order].state = "terminated"]
    /\ requests' = [requests EXCEPT ![r] = Idle]
    /\ KeepNumber /\ UNCHANGED <<faults, Unfulfilled>>

(* Out of band; bound: one who has not ordered. *)
DeleteCustomer(c) ==
    /\ customers[c].status = "active"
    /\ \A o \in Order : orders[o].customer # c
    /\ Fault
    /\ customers' = [customers EXCEPT ![c] = [Nobody EXCEPT !.status = "gone"]]
    /\ UNCHANGED <<pool, portal, link, decision, orders, hosted, crossed, numbering>>

-----------------------------------------------------------------------------
Handle(r) ==
    \/ OpenOrderAnswered(r) \/ ResumeCustomer(r) \/ DropGhost(r) \/ CreateCustomer(r) \/ Bind(r)
    \/ Attest(r) \/ AttestationMissing(r) \/ AddCard(r) \/ CreateOrder(r) \/ SubmitOrder(r)
    \/ Write(r) \/ Close(r) \/ Cancel(r) \/ CancelUnmatched(r) \/ CancelCommit(r)
    \/ TerminateRelease(r) \/ TerminateCommit(r) \/ Abandon(r)
    \/ \E w \in Owner : CancelLookup(r, w)
    \/ \E o \in Order : TerminateRead(r, o)

Start(r, s) ==
    \/ \E w \in Owner, n \in Number : Submit(r, s, w, n)
    \/ StepKyc(r, s) \/ KycPoll(r, s) \/ StepCof(r, s) \/ CheckoutInit(r, s)
    \/ CheckoutReturn(r, s) \/ StepOrder(r, s) \/ StepPoll(r, s)

Fulfil(o) ==
    \/ Provision(o) \/ NoNumber(o) \/ DecompositionFails(o) \/ ServiceFails(o)
    \/ StartActivation(o) \/ Activate(o) \/ ActivationDeclined(o) \/ Park(o)

Next ==
    \/ \E r \in Request : Handle(r) \/ \E s \in Session : Start(r, s)
    \/ \E s \in Session : KycWebhook(s) \/ LoseSession(s)
    \/ \E w \in Owner : Login(w)
    \/ \E o \in Order : Fulfil(o)
    \/ \E c \in Customer : DeleteCustomer(c)
    \/ Sweep \/ Advance

Spec == Init /\ [][Next]_vars

(* Bound: with an order astray nothing is said of the numbers any more. *)
Straight == ~ astray

-----------------------------------------------------------------------------
(* PROPERTIES *)

(* An order is placed for a customer whose identity was attested, and for the      *)
(* owner of the session it came from: com does not look, so it is up to the        *)
(* funnel, with its stale copies, lost sessions and replaced customers, that no     *)
(* path skips the step (signup_submit, complete_kyc_attest, signup_step_order).     *)
KycBeforeOrder ==
    \A o \in Order : orders[o].state # "none" => customers[orders[o].customer].verified

(* An order has its number from the reservation until it gives it back.  No two have one *)
(* number - two copies of one signup, a hold taken over, a declined order and the one    *)
(* that came after it, a line that is being terminated - until an order that gave its    *)
(* number back releases it once more, or activates a line on it: subscription.create is  *)
(* retried after a decline, and terminate runs twice (reserve_next_msisdn,               *)
(* release_msisdn).                                                                      *)
HoldsNumber(o) ==
    orders[o].state \in {"reserved", "charging", "retried", "completed"} /\ o \notin given

NumberNotShared ==
    ~ astray =>
        \A o, p \in Order :
            HoldsNumber(o) /\ HoldsNumber(p) /\ orders[o].number = orders[p].number => o = p

(* Every hold is within reach of the sweep: its open order is open and has the same      *)
(* window, whatever cancels, resumes and stale requests come in between.  Two kinds are  *)
(* lost to it: the hold of a completed open order (complete_open_order releases nothing, *)
(* and the order may have been resumed after its line was terminated), and that of one   *)
(* resumed between the two statements of its cancellation (cancel_open_order).           *)
HoldsInReach ==
    \A n \in Number : Soft(n) =>
        LET oo == openOrders[numbers[n].for]
        IN  \/ oo.status = "open" /\ oo.until = numbers[n].until
            \/ oo.status = "completed"
            \/ oo.status = "cancelled" /\ numbers[n].for \in crossed

(* What the pool promises to those who hold numbers and to those with a line on one. *)
Life == INSTANCE NumberLife WITH
    free <- {n \in Number : numbers[n].status = "available"},
    hold <- [n \in Number |-> IF Soft(n) THEN [by |-> numbers[n].for, until |-> numbers[n].until]
                                         ELSE [by |-> None, until |-> 0]],
    line <- [o \in Order |-> IF HoldsNumber(o) THEN orders[o].number ELSE None]

(* A hold is taken over only after its window or by a line, the sweep frees none before   *)
(* its time, and what has a line leaves it by the end of that line alone, through failed  *)
(* decompositions, declines, late and repeated releases; until an order goes astray as    *)
(* above (hold_msisdn, sweep_expired, release_msisdn).                                    *)
PromiseKept ==
    Life!Init /\ [][\/ astray'
                    \/ UNCHANGED <<pool, orders, given>>
                    \/ UNCHANGED Life!vars \/ Life!Next]_vars
=============================================================================
