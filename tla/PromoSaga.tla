------------------------------ MODULE PromoSaga ------------------------------
(***************************************************************************)
(* Promotions: catalog writes the money terms and registers the entitlement *)
(* with loyalty (services/catalog/src/promo_service.rs), COM stamps the     *)
(* intent on an order and consumes the entitlement when the order activates *)
(* (services/com/src/service.rs).                                           *)
(*                                                                         *)
(* No two of these steps share a transaction: a request of catalog or the   *)
(* handling of service_order.completed may stop between any two calls, and  *)
(* a call of loyalty or subscription may have its effect and no answer.     *)
(* The handler's event is given again, Attempts times in all.               *)
(***************************************************************************)
EXTENDS Loyalty

CONSTANTS
    Request,      \* operators' requests catalog handles at the same time
    Attempts,     \* the retry budget of the event
    MaxFaults     \* bound: calls whose answer is lost, processes that stop

ASSUME PromoAssumption ==
    /\ Attempts \in Nat \ {0}
    /\ MaxFaults \in Nat

VARIABLES
    promotions,   \* catalog.promotion: [state, code, audience]
    eligibility,  \* catalog.promotion_eligibility: "none", "row", or "offer": with a loyalty_offer_id
    requests,     \* what each request does next
    orders,       \* [state, customer, promo, code, offer]: promo = None is no discount
    lines,        \* subscription's row by order: "none", "full" or "discounted"
    handling,     \* the handling of service_order.completed: [at, promised], by order
    attempts,     \* deliveries of the event so far
    faults,
    lost,         \* has a fault hit a call, or the handling of an event?
    declined      \* history: the orders a card was declined for

catalog == <<promotions, eligibility, requests>>
com == <<orders, lines, handling, attempts>>
bounds == <<faults, lost, declined>>
vars == <<loyalty, catalog, com, bounds>>

Idle == [at |-> "idle"]
Calls == [at : {"definition", "code", "confirm"}, promo : Promo, code : Code, kind : Kind]
             \union [at : {"issue", "issued", "expire", "revoke", "remove"},
                     pair : Paired, offer : {"row", "offer"}]
NoPromotion == [state |-> "none", code |-> None, audience |-> None]
NoOrder == [state |-> "none", customer |-> None, promo |-> None, code |-> None, offer |-> None]

TypeOK ==
    /\ LoyaltyTypeOK
    /\ promotions \in [Promo -> [state : {"none", "pending_link", "active", "exhausted"},
                                 code : Code \union {None}, audience : {"public", "targeted", None}]]
    /\ eligibility \in [Paired -> {"none", "row", "offer"}]
    /\ requests \in [Request -> Calls \union {Idle}]
    /\ orders \in [Order -> [state : {"none", "acknowledged", "in_progress", "completed", "closed"},
                             customer : Customer \union {None}, promo : Promo \union {None},
                             code : Code \union {None}, offer : Offer \union {None}]]
    /\ lines \in [Order -> {"none", "full", "discounted"}]
    /\ handling \in [Order -> [at : {"idle", "claim", "create", "revoke", "redeem", "commit"},
                               promised : BOOLEAN]]
    /\ attempts \in [Order -> 0 .. Attempts]
    /\ faults \in 0 .. MaxFaults
    /\ lost \in BOOLEAN
    /\ declined \subseteq Order

Init ==
    /\ LoyaltyInit
    /\ promotions = [p \in Promo |-> NoPromotion]
    /\ eligibility = [x \in Paired |-> "none"]
    /\ requests = [q \in Request |-> Idle]
    /\ orders = [o \in Order |-> NoOrder]
    /\ lines = [o \in Order |-> "none"]
    /\ handling = [o \in Order |-> [at |-> "idle", promised |-> FALSE]]
    /\ attempts = [o \in Order |-> 0]
    /\ faults = 0 /\ lost = FALSE /\ declined = {}

Lose == faults < MaxFaults /\ faults' = faults + 1 /\ lost' = TRUE /\ UNCHANGED declined

-----------------------------------------------------------------------------
(* catalog: create, exhaust *)

Goes(q, at) == requests' = [requests EXCEPT ![q].at = at]
Ends(q) == requests' = [requests EXCEPT ![q] = Idle]
At(q, at) == requests[q].at = at
Asked(q) == requests[q]

(* The row is written as pending_link, or a pending_link row is resumed: the resumed  *)
(* row keeps its code, loyalty is given the new request's.                            *)
CreatePromotion(q, p, k, audience, kind) ==
    /\ requests[q] = Idle
    /\ \/ /\ promotions[p].state = "none"
          /\ \A other \in Promo : promotions[other].code # k
          /\ promotions' = [promotions EXCEPT ![p] =
                               [state |-> "pending_link", code |-> k, audience |-> audience]]
       \/ promotions[p].state = "pending_link" /\ UNCHANGED promotions
    /\ requests' = [requests EXCEPT ![q] =
                       [at |-> "definition", promo |-> p, code |-> k, kind |-> kind]]
    /\ UNCHANGED <<loyalty, eligibility, com, bounds>>

RegisterOfferDefinition(q) ==
    /\ At(q, "definition")
    /\ loyalty' = RegisterDefinition(Asked(q).promo)
    /\ Goes(q, "code")
    /\ UNCHANGED <<promotions, eligibility, com, bounds>>

(* Mutant: a refusal of loyalty does not stop the saga. *)
RegisterPromoCode_Ignored(q) ==
    /\ At(q, "code")
    /\ loyalty' = IF CodeRefused(Asked(q).promo, Asked(q).code) THEN loyalty
                  ELSE RegisterCode(Asked(q).promo, Asked(q).code, Asked(q).kind)
    /\ Goes(q, "confirm")
    /\ UNCHANGED <<promotions, eligibility, com, bounds>>

RegisterPromoCode(q) ==
    /\ At(q, "code")
    /\ IF CodeRefused(Asked(q).promo, Asked(q).code)
       THEN Ends(q) /\ UNCHANGED loyalty
       ELSE /\ loyalty' = RegisterCode(Asked(q).promo, Asked(q).code, Asked(q).kind)
            /\ Goes(q, "confirm")
    /\ UNCHANGED <<promotions, eligibility, com, bounds>>

(* The update names the row by its id only, whatever its state is by now. *)
ConfirmLink(q) ==
    /\ At(q, "confirm")
    /\ promotions' = [promotions EXCEPT ![Asked(q).promo].state = "active"]
    /\ Ends(q)
    /\ UNCHANGED <<loyalty, eligibility, com, bounds>>

Exhaust(p) ==
    /\ promotions[p].state = "active"
    /\ promotions' = [promotions EXCEPT ![p].state = "exhausted"]
    /\ UNCHANGED <<loyalty, eligibility, requests, com, bounds>>

-----------------------------------------------------------------------------
(* catalog: assign and unassign one customer *)

Targeted(p) == promotions[p].audience = "targeted"

AssignTargeted(q, x) ==
    /\ requests[q] = Idle
    /\ Targeted(x[2]) /\ promotions[x[2]].state = "active"
    /\ eligibility[x] = "none"
    /\ requests' = [requests EXCEPT ![q] = [at |-> "issue", pair |-> x, offer |-> "offer"]]
    /\ UNCHANGED <<loyalty, promotions, eligibility, com, bounds>>

(* loyalty issues the offer; without its answer the row is written without one. *)
IssueOffer(q) ==
    /\ At(q, "issue")
    /\ \/ loyalty' = Issue(Asked(q).pair) /\ Goes(q, "issued") /\ UNCHANGED bounds
       \/ /\ Lose
          /\ loyalty' \in {loyalty, Issue(Asked(q).pair)}
          /\ requests' = [requests EXCEPT ![q].at = "issued", ![q].offer = "row"]
    /\ UNCHANGED <<promotions, eligibility, com>>

(* add_eligibility reads again; two inserts at once meet the unique index. *)
AddEligibility(q) ==
    /\ At(q, "issued")
    /\ eligibility' = [eligibility EXCEPT ![Asked(q).pair] =
                          IF @ = "none" THEN Asked(q).offer ELSE @]
    /\ Ends(q)
    /\ UNCHANGED <<loyalty, promotions, com, bounds>>

(* The deleted row is locked until the commit: one unassign of it at a time. *)
UnassignTargeted(q, x) ==
    /\ requests[q] = Idle
    /\ Targeted(x[2]) /\ eligibility[x] # "none"
    /\ \A r \in Request : At(r, "expire") \/ At(r, "revoke") \/ At(r, "remove") => Asked(r).pair # x
    /\ requests' = [requests EXCEPT ![q] =
                       [at |-> IF eligibility[x] = "offer" THEN "expire" ELSE "remove",
                        pair |-> x, offer |-> eligibility[x]]]
    /\ UNCHANGED <<loyalty, promotions, eligibility, com, bounds>>

ExpireOffer(q) ==
    /\ At(q, "expire")
    /\ \/ /\ loyalty' = Expire(Asked(q).pair)
          /\ Goes(q, IF OfferOf(Asked(q).pair).state \in {"issued", "expired"} THEN "remove" ELSE "revoke")
          /\ UNCHANGED bounds
       \/ /\ Lose
          /\ loyalty' \in {loyalty, Expire(Asked(q).pair)}
          /\ Goes(q, "remove")
    /\ UNCHANGED <<promotions, eligibility, com>>

RevokeOffer(q) ==
    /\ At(q, "revoke")
    /\ \/ loyalty' = Revoke(Asked(q).pair) /\ UNCHANGED bounds
       \/ Lose /\ UNCHANGED loyalty
    /\ Goes(q, "remove")
    /\ UNCHANGED <<promotions, eligibility, com>>

RemoveEligibility(q) ==
    /\ At(q, "remove")
    /\ eligibility' = [eligibility EXCEPT ![Asked(q).pair] = "none"]
    /\ Ends(q)
    /\ UNCHANGED <<loyalty, promotions, com, bounds>>

(* The process stops: its open transaction is rolled back, its calls are not. *)
Stop(q) ==
    /\ requests[q] # Idle
    /\ Lose
    /\ Ends(q)
    /\ UNCHANGED <<loyalty, promotions, eligibility, com>>

-----------------------------------------------------------------------------
(* com: orders *)

(* A discount an order may carry.  The code is not consumed, so the answer is a hint. *)
Stamp(p, k, x) == [promo |-> p, code |-> k, offer |-> IF eligibility[x] = "offer" THEN x ELSE None]
NoDiscount == [promo |-> None, code |-> None, offer |-> None]

Validated(c, k) ==
    {Stamp(p, k, <<c, p>>) : p \in
        {p \in Promo : /\ loyalty.codes[k].promo = p
                       /\ promotions[p].state = "active"
                       /\ Targeted(p) => eligibility[<<c, p>>] # "none"}}

Consumed(c) == {OfferOf(f).promo : f \in {f \in Offer : Live(f) /\ OfferOf(f).customer = c}}
Eligible(c, consumed) ==
    {Stamp(p, promotions[p].code, <<c, p>>) : p \in
        {p \in Promo \ consumed : /\ promotions[p].state = "active" /\ Targeted(p)
                                  /\ eligibility[<<c, p>>] # "none"}}

(* resolve_discount: the typed code if it is valid, else an eligible promotion, of which   *)
(* none is known to be consumed when loyalty does not answer; no discount if the customer  *)
(* opts out or catalog does not answer.                                                    *)
Discounts(c) ==
    {NoDiscount} \union Eligible(c, Consumed(c)) \union Eligible(c, {})
                 \union UNION {Validated(c, k) : k \in Code}

CreateOrder(o, c) ==
    /\ orders[o].state = "none" /\ \A p \in Order : p < o => orders[p].state # "none"
    /\ \E d \in Discounts(c) :
          orders' = [orders EXCEPT ![o] =
                        [state |-> "acknowledged", customer |-> c, promo |-> d.promo,
                         code |-> d.code, offer |-> d.offer]]
    /\ UNCHANGED <<loyalty, catalog, lines, handling, attempts, bounds>>

SubmitOrder(o) ==
    /\ orders[o].state = "acknowledged"
    /\ orders' = [orders EXCEPT ![o].state = "in_progress"]
    /\ UNCHANGED <<loyalty, catalog, lines, handling, attempts, bounds>>

(* cancel_order, or service_order.failed.  A cancel behind the handler's back is in   *)
(* OrderFulfilment.                                                                   *)
CloseOrder(o) ==
    /\ orders[o].state \in {"acknowledged", "in_progress"} /\ attempts[o] = 0
    /\ orders' = [orders EXCEPT ![o].state = "closed"]
    /\ UNCHANGED <<loyalty, catalog, lines, handling, attempts, bounds>>

Handles(o, at) == handling[o].at = at
Step(o, at, promised) == handling' = [handling EXCEPT ![o] = [at |-> at, promised |-> promised]]
Promised(o) == handling[o].promised
OfferFor(o) == IF orders[o].offer # None THEN orders[o].offer ELSE <<"minted", o>>

(* Mutant: the event is given again for ever. *)
Begin_NoBudget(o) ==
    /\ orders[o].state = "in_progress" /\ Handles(o, "idle")
    /\ attempts' = [attempts EXCEPT ![o] = @ + 1]
    /\ Step(o, IF orders[o].promo = None THEN "create" ELSE "claim", FALSE)
    /\ UNCHANGED <<loyalty, catalog, orders, lines, bounds>>

(* handle_service_order_completed: the row is locked, the claim is the gate. *)
Begin(o) ==
    /\ orders[o].state = "in_progress" /\ Handles(o, "idle") /\ attempts[o] < Attempts
    /\ attempts' = [attempts EXCEPT ![o] = @ + 1]
    /\ Step(o, IF orders[o].promo = None THEN "create" ELSE "claim", FALSE)
    /\ UNCHANGED <<loyalty, catalog, orders, lines, bounds>>

(* Any error of the claim degrades the order to full price. *)
ClaimEntitlement(o) ==
    LET f == OfferFor(o)
        c == orders[o].customer
        k == orders[o].code
        after == IF ClaimRefused(o, f, k, c) THEN loyalty ELSE Claim(o, f, k, c)
    IN  /\ Handles(o, "claim")
        /\ \/ loyalty' = after /\ Step(o, "create", ~ClaimRefused(o, f, k, c)) /\ UNCHANGED bounds
           \/ /\ Lose
              /\ loyalty' \in {loyalty, after} /\ Step(o, "create", FALSE)
        /\ UNCHANGED <<catalog, orders, lines, attempts>>

(* subscription.create answers a repeated order with the row it has; a new one charges *)
(* the card, which may decline.                                                        *)
CreateLine(o) ==
    LET sold == [lines EXCEPT ![o] = IF @ # "none" THEN @
                                     ELSE IF Promised(o) THEN "discounted" ELSE "full"]
        refused == Step(o, IF Promised(o) THEN "revoke" ELSE "idle", Promised(o))
    IN  /\ Handles(o, "create")
        /\ \/ lines' = sold /\ UNCHANGED bounds
              /\ Step(o, IF Promised(o) THEN "redeem" ELSE "commit", Promised(o))
           \/ /\ lines[o] = "none" /\ refused
              /\ declined' = declined \union {o} /\ UNCHANGED <<lines, faults, lost>>
           \/ Lose /\ lines' \in {lines, sold} /\ refused
        /\ UNCHANGED <<loyalty, catalog, orders, attempts>>

(* Mutant: a failed activation leaves the claim where it is. *)
RevokeEntitlement_Skip(o) ==
    /\ Handles(o, "revoke")
    /\ Step(o, "idle", FALSE)
    /\ UNCHANGED <<loyalty, catalog, orders, lines, attempts, bounds>>

(* The event fails and is given again. *)
RevokeEntitlement(o) ==
    /\ Handles(o, "revoke")
    /\ \/ loyalty' = Revoke(OfferFor(o)) /\ UNCHANGED bounds
       \/ Lose /\ UNCHANGED loyalty
    /\ Step(o, "idle", FALSE)
    /\ UNCHANGED <<catalog, orders, lines, attempts>>

RedeemEntitlement(o) ==
    /\ Handles(o, "redeem")
    /\ \/ loyalty' = Redeem(OfferFor(o)) /\ UNCHANGED bounds
       \/ Lose /\ UNCHANGED loyalty
    /\ Step(o, "commit", TRUE)
    /\ UNCHANGED <<catalog, orders, lines, attempts>>

CompleteOrder(o) ==
    /\ Handles(o, "commit")
    /\ orders' = [orders EXCEPT ![o].state = "completed",
                                ![o].offer = IF Promised(o) THEN OfferFor(o) ELSE @]
    /\ Step(o, "idle", FALSE)
    /\ UNCHANGED <<loyalty, catalog, lines, attempts, bounds>>

(* The consumer stops: the handler's transaction is rolled back, its calls are not. *)
Crash(o) ==
    /\ ~Handles(o, "idle")
    /\ Lose
    /\ Step(o, "idle", FALSE)
    /\ UNCHANGED <<loyalty, catalog, orders, lines, attempts>>

-----------------------------------------------------------------------------
Catalog(q) ==
    \/ \E p \in Promo, k \in Code, a \in {"public", "targeted"}, kind \in Kind :
          CreatePromotion(q, p, k, a, kind)
    \/ RegisterOfferDefinition(q) \/ RegisterPromoCode(q) \/ ConfirmLink(q)
    \/ \E x \in Paired : AssignTargeted(q, x) \/ UnassignTargeted(q, x)
    \/ IssueOffer(q) \/ AddEligibility(q)
    \/ ExpireOffer(q) \/ RevokeOffer(q) \/ RemoveEligibility(q)
    \/ Stop(q)

Activation(o) ==
    \/ Begin(o) \/ ClaimEntitlement(o) \/ CreateLine(o)
    \/ RevokeEntitlement(o) \/ RedeemEntitlement(o) \/ CompleteOrder(o) \/ Crash(o)

Next ==
    \/ \E q \in Request : Catalog(q)
    \/ \E p \in Promo : Exhaust(p)
    \/ \E o \in Order : Activation(o) \/ SubmitOrder(o) \/ CloseOrder(o)
    \/ \E o \in Order, c \in Customer : CreateOrder(o, c)

Spec == Init /\ [][Next]_vars

-----------------------------------------------------------------------------
(* PROPERTIES *)

(* An offer buys one line: however often the event is given again and the answers are *)
(* replayed, two orders are not discounted by one upfront offer (claim_entitlement).   *)
OfferBuysOneLine ==
    \A o, p \in Order :
        /\ lines[o] = "discounted" /\ lines[p] = "discounted"
        /\ orders[o].offer # None /\ orders[o].offer = orders[p].offer
        => o = p

(* Unless a call or a process was lost, what an order claimed is for a line sold at the *)
(* discount, or the order is being activated, or its card was declined and the claim is *)
(* revoked: "only a payment decline" burns a single-use code (phases/V1_1_0.md, decision *)
(* 5), and no unassignment, refusal, failed or parked order does (claim_entitlement,    *)
(* revoke_entitlement, redeem_entitlement).                                             *)
OnlyDeclinesBurn ==
    ~lost => \A f \in Offer : OfferOf(f).state \in {"claimed", "redeemed", "revoked"} =>
        LET o == OfferOf(f).order
        IN  \/ lines[o] = "discounted"
            \/ ~Handles(o, "idle")
            \/ OfferOf(f).state = "revoked" /\ o \in declined

(* A promotion that was offered for sale is linked: loyalty knows its definition and a *)
(* code for it, however creations of it overlapped, stopped and were resumed            *)
(* (create_promotion: the order of the saga "makes a crash harmless").                  *)
ActiveIsLinked ==
    \A p \in Promo :
        promotions[p].state \in {"active", "exhausted"} =>
            p \in loyalty.defs /\ CodeRegistered(p)
=============================================================================
