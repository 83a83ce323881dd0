------------------------------- MODULE Loyalty -------------------------------
(***************************************************************************)
(* loyalty-cli, the external entitlement engine, as catalog and COM use it  *)
(* through bss-clients/src/loyalty.rs: offer definitions, promo codes bound *)
(* to them, and offers that are issued, claimed, redeemed, revoked or       *)
(* expired.  Every write carries an idempotency key: the answer of a call   *)
(* that was accepted is given again to the same key.                        *)
(*                                                                         *)
(* Operators that write give the new value of loyalty.                      *)
(***************************************************************************)
EXTENDS Naturals, FiniteSets

CONSTANTS
    Promo,
    Code,
    Customer,
    Order,
    Kind,         \* the kinds of promo codes enumerated
    Revocable,    \* states loyalty revokes an offer from: claimed, perhaps redeemed
    None

(* An offer is issued upfront to a customer (OFF-{customer}-{promotion}), or minted by *)
(* the claim of an order that types a code.                                            *)
Paired == Customer \X Promo
Minted == {"minted"} \X Order
Offer == Paired \union Minted

ASSUME LoyaltyAssumption ==
    /\ None \notin Promo \union Code \union Customer \union Order \union Offer
    /\ "minted" \notin Customer
    /\ Kind \subseteq {"single_use_shared", "multi_use", "single_use_unique_per_customer"}
    /\ "claimed" \in Revocable /\ Revocable \subseteq {"claimed", "redeemed"}

VARIABLE loyalty  \* [defs, codes, offers, claims]

NoOffer == [state |-> "none", promo |-> None, customer |-> None, order |-> None]
NoBinding == [promo |-> None, kind |-> None]

LoyaltyTypeOK ==
    loyalty \in
        [defs : SUBSET Promo,
         codes : [Code -> [promo : Promo \union {None}, kind : Kind \union {"multi_use"}] \union {NoBinding}],
         offers : [Offer -> [state : {"none", "issued", "claimed", "redeemed", "revoked", "expired"},
                             promo : Promo \union {None}, customer : Customer \union {None},
                             order : Order \union {None}]],
         claims : [Order -> Offer \union {None}]]

(* Another tenant of the engine may have taken some of the codes. *)
LoyaltyInit ==
    \E taken \in SUBSET Code :
        loyalty = [defs |-> {},
                   codes |-> [k \in Code |-> IF k \in taken THEN [promo |-> None, kind |-> "multi_use"]
                                                           ELSE NoBinding],
                   offers |-> [f \in Offer |-> NoOffer],
                   claims |-> [o \in Order |-> None]]

OfferOf(f) == loyalty.offers[f]
Live(f) == OfferOf(f).state \in {"claimed", "redeemed"}

RegisterDefinition(p) == [loyalty EXCEPT !.defs = @ \union {p}]

(* The key is the promotion's: once a code was registered for it, any other is answered *)
(* like the first.                                                                      *)
CodeRegistered(p) == \E k \in Code : loyalty.codes[k].promo = p
CodeRefused(p, k) == ~CodeRegistered(p) /\ loyalty.codes[k] # NoBinding
RegisterCode(p, k, kind) ==
    IF CodeRegistered(p) THEN loyalty
    ELSE [loyalty EXCEPT !.codes[k] = [promo |-> p, kind |-> kind]]

Issue(f) ==
    IF OfferOf(f).state # "none" THEN loyalty
    ELSE [loyalty EXCEPT !.offers[f] =
             [state |-> "issued", promo |-> f[2], customer |-> f[1], order |-> None]]

(* What the code still allows this customer to claim: a revocation puts the offer back in *)
(* stock and leaves the code spent (phases/V1_1_0.md, "Burn-on-revoke").                  *)
Inventory(k, c) ==
    LET b == loyalty.codes[k]
        uses == {f \in Minted : OfferOf(f).promo = b.promo}
    IN  /\ b.promo # None
        /\ b.kind = "single_use_shared" => uses = {}
        /\ b.kind = "single_use_unique_per_customer" => \A f \in uses : OfferOf(f).customer # c

(* Mutant: the key is the offer's. *)
Replayed_PerOffer(o, f) == \E p \in Order : loyalty.claims[p] = f

(* Claim by code, or advance the offer f; the key is the order's. *)
Replayed(o, f) == loyalty.claims[o] # None
ClaimRefused(o, f, k, c) ==
    /\ ~Replayed(o, f)
    /\ IF f \in Paired THEN OfferOf(f).state # "issued" ELSE ~Inventory(k, c)
Claim(o, f, k, c) ==
    IF Replayed(o, f) THEN loyalty
    ELSE [loyalty EXCEPT !.claims[o] = f,
                         !.offers[f] = [state |-> "claimed", customer |-> c, order |-> o,
                                        promo |-> IF f \in Paired THEN f[2]
                                                  ELSE loyalty.codes[k].promo]]

Moves(f, from, to) ==
    IF OfferOf(f).state \in from THEN [loyalty EXCEPT !.offers[f].state = to] ELSE loyalty
Redeem(f) == Moves(f, {"claimed"}, "redeemed")
Revoke(f) == Moves(f, Revocable, "revoked")
Expire(f) == Moves(f, {"issued"}, "expired")
=============================================================================
