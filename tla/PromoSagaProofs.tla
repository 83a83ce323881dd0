---------------------------- MODULE PromoSagaProofs ----------------------------
(***************************************************************************)
(* What the promotion saga keeps for any number of promotions, codes,      *)
(* customers, orders, requests, redeliveries and faults.                   *)
(***************************************************************************)
EXTENDS PromoSaga, TLAPS

(* Next, with catalog's creations, catalog's assignments and com told apart. *)
LEMMA NextCases ==
  ASSUME Next
  PROVE  \/ \E q \in Request, p \in Promo, k \in Code, a \in {"public", "targeted"}, kind \in Kind :
               CreatePromotion(q, p, k, a, kind)
         \/ \E q \in Request : RegisterOfferDefinition(q) \/ RegisterPromoCode(q) \/ ConfirmLink(q)
         \/ \E p \in Promo : Exhaust(p)
         \/ \E q \in Request, x \in Paired : AssignTargeted(q, x) \/ UnassignTargeted(q, x)
         \/ \E q \in Request : IssueOffer(q) \/ AddEligibility(q) \/ ExpireOffer(q) \/ RevokeOffer(q)
                               \/ RemoveEligibility(q) \/ Stop(q)
         \/ \E o \in Order, c \in Customer : CreateOrder(o, c)
         \/ \E o \in Order : SubmitOrder(o) \/ CloseOrder(o)
         \/ \E o \in Order : Begin(o) \/ ClaimEntitlement(o) \/ CreateLine(o)
         \/ \E o \in Order : RevokeEntitlement(o) \/ RedeemEntitlement(o) \/ CompleteOrder(o) \/ Crash(o)
  BY DEF Next, Catalog, Activation

-----------------------------------------------------------------------------
(* The inductive invariants. *)

(* A promotion that exists has a code, so has every order that is to be discounted, and *)
(* a handler works on an order in progress.                                             *)
Coded ==
    /\ \A p \in Promo : promotions[p].state # "none" => promotions[p].code \in Code
    /\ \A q \in Request : requests[q].at \in {"definition", "code", "confirm"} =>
          promotions[requests[q].promo].state # "none"
    /\ \A o \in Order : orders[o].promo # None => orders[o].code \in Code
    /\ \A o \in Order : handling[o].at # "idle" => orders[o].state = "in_progress" /\ attempts[o] # 0
    /\ \A o \in Order : handling[o].at = "claim" => orders[o].promo # None

TypeInv == TypeOK /\ Coded

(* A claim has an offer and the offer names the claim's order; it is the one that the *)
(* order was stamped with, or the order's own.                                         *)
ClaimsMatch ==
    /\ \A f \in Offer : OfferOf(f).state \in {"claimed", "redeemed", "revoked"} =>
          OfferOf(f).order \in Order /\ loyalty.claims[OfferOf(f).order] = f
    /\ \A o \in Order : loyalty.claims[o] # None =>
          /\ OfferOf(loyalty.claims[o]).order = o
          /\ OfferOf(loyalty.claims[o]).state \in {"claimed", "redeemed", "revoked"}
          /\ loyalty.claims[o] = OfferFor(o)
          /\ orders[o].promo # None /\ orders[o].state # "none"
    /\ \A o \in Order : orders[o].offer \in Paired \union {None, <<"minted", o>>}

(* A discount is only promised, and only sold, on a claim. *)
DiscountsClaimed ==
    \A o \in Order :
        /\ handling[o].promised \/ lines[o] = "discounted" => loyalty.claims[o] # None
        /\ handling[o].at \in {"revoke", "redeem"} => handling[o].promised

SaleInv == ClaimsMatch /\ DiscountsClaimed

(* Where the handler is, as long as nothing was lost, says what became of the claim. *)
NothingHangs ==
    \A o \in Order :
        /\ handling[o].at \in {"claim", "create", "revoke"} => lines[o] = "none"
        /\ handling[o].at = "idle" /\ orders[o].state \in {"none", "acknowledged", "in_progress"} =>
              lines[o] = "none"
        /\ handling[o].at \in {"create", "commit"} /\ ~ handling[o].promised => loyalty.claims[o] = None
        /\ handling[o].at \in {"redeem", "commit"} /\ handling[o].promised => lines[o] = "discounted"
        /\ handling[o].at = "revoke" => o \in declined

Serves(o) == lines[o] = "discounted" \/ ~ Handles(o, "idle")

ClaimsInUse ==
    \A f \in Offer :
        /\ OfferOf(f).state = "redeemed" => lines[OfferOf(f).order] = "discounted"
        /\ Live(f) => Serves(OfferOf(f).order)
        /\ OfferOf(f).state = "revoked" => Serves(OfferOf(f).order) \/ OfferOf(f).order \in declined

BurnInv == ~ lost => NothingHangs /\ ClaimsInUse

(* A request that is past a call of the saga has made it. *)
LinkInv ==
    /\ \A q \in Request : At(q, "code") \/ At(q, "confirm") => requests[q].promo \in loyalty.defs
    /\ \A q \in Request : At(q, "confirm") => CodeRegistered(requests[q].promo)
    /\ ActiveIsLinked

-----------------------------------------------------------------------------
(* What the calls of loyalty make of its state. *)

OfferRow == [state : {"none", "issued", "claimed", "redeemed", "revoked", "expired"},
             promo : Promo \union {None}, customer : Customer \union {None},
             order : Order \union {None}]
CodeRow == [promo : Promo \union {None}, kind : Kind \union {"multi_use"}] \union {NoBinding}
LoyaltyState == [defs : SUBSET Promo, codes : [Code -> CodeRow], offers : [Offer -> OfferRow],
                 claims : [Order -> Offer \union {None}]]

LEMMA StateOfLoyalty == LoyaltyTypeOK <=> loyalty \in LoyaltyState
  BY DEF LoyaltyTypeOK, LoyaltyState, OfferRow, CodeRow

LEMMA LoyaltyParts ==
  ASSUME LoyaltyTypeOK
  PROVE  /\ loyalty.defs \subseteq Promo /\ loyalty.codes \in [Code -> CodeRow]
         /\ loyalty.offers \in [Offer -> OfferRow]
         /\ loyalty.claims \in [Order -> Offer \union {None}]
         /\ loyalty = [defs |-> loyalty.defs, codes |-> loyalty.codes,
                       offers |-> loyalty.offers, claims |-> loyalty.claims]
  BY StateOfLoyalty DEF LoyaltyState

LEMMA OffersApart ==
  /\ \A x \in Paired : x \in Offer /\ x \notin Minted /\ x[1] \in Customer /\ x[2] \in Promo
  /\ \A o \in Order : <<"minted", o>> \in Minted /\ <<"minted", o>> \in Offer
  /\ \A o, p \in Order : <<"minted", o>> = <<"minted", p>> => o = p
  /\ None \notin Offer
  BY LoyaltyAssumption DEF Offer, Paired, Minted

LEMMA DefinitionFacts ==
  ASSUME LoyaltyTypeOK, NEW p \in Promo
  PROVE  LET after == RegisterDefinition(p)
         IN  /\ after \in LoyaltyState
             /\ after.defs = loyalty.defs \union {p} /\ after.codes = loyalty.codes
             /\ after.offers = loyalty.offers /\ after.claims = loyalty.claims
  BY LoyaltyParts, StateOfLoyalty DEF RegisterDefinition, LoyaltyState

LEMMA CodeFacts ==
  ASSUME LoyaltyTypeOK, NEW p \in Promo, NEW k \in Code, NEW kind \in Kind
  PROVE  LET after == RegisterCode(p, k, kind)
         IN  /\ after \in LoyaltyState
             /\ after.defs = loyalty.defs
             /\ after.offers = loyalty.offers /\ after.claims = loyalty.claims
             /\ CodeRegistered(p) => after = loyalty
             /\ ~ CodeRegistered(p) => /\ after.codes[k].promo = p
                                       /\ \A h \in Code \ {k} : after.codes[h] = loyalty.codes[h]
<1> DEFINE row == [promo |-> p, kind |-> kind]
           after == RegisterCode(p, k, kind)
<1>1. CASE CodeRegistered(p)
  BY <1>1, StateOfLoyalty DEF RegisterCode
<1>2. CASE ~ CodeRegistered(p)
  <2>1. after = [loyalty EXCEPT !.codes = [@ EXCEPT ![k] = row]]
    BY <1>2 DEF RegisterCode
  <2>2. row \in CodeRow /\ row.promo = p
    BY DEF CodeRow
  <2>3. [loyalty.codes EXCEPT ![k] = row] \in [Code -> CodeRow]
    <3> HIDE DEF row
    <3>. QED BY <2>2, LoyaltyParts
  <2>4. after = [defs |-> loyalty.defs, codes |-> [loyalty.codes EXCEPT ![k] = row],
                 offers |-> loyalty.offers, claims |-> loyalty.claims]
    BY <2>1, LoyaltyParts
  <2> HIDE DEF row, after
  <2>5. after \in LoyaltyState
    BY <2>3, <2>4, LoyaltyParts DEF LoyaltyState
  <2>6. after.codes[k] = row /\ \A h \in Code \ {k} : after.codes[h] = loyalty.codes[h]
    BY <2>4, LoyaltyParts
  <2>. QED BY <1>2, <2>2, <2>4, <2>5, <2>6 DEF after
<1>. QED BY <1>1, <1>2

(* One offer is written. *)
LEMMA OfferWritten ==
  ASSUME LoyaltyTypeOK, NEW f \in Offer, NEW row \in OfferRow
  PROVE  LET after == [loyalty EXCEPT !.offers = [@ EXCEPT ![f] = row]]
         IN  /\ after \in LoyaltyState
             /\ after.defs = loyalty.defs /\ after.codes = loyalty.codes /\ after.claims = loyalty.claims
             /\ after.offers[f] = row
             /\ \A g \in Offer \ {f} : after.offers[g] = loyalty.offers[g]
<1> DEFINE after == [loyalty EXCEPT !.offers = [@ EXCEPT ![f] = row]]
           offers == [loyalty.offers EXCEPT ![f] = row]
<1>1. offers \in [Offer -> OfferRow] /\ offers[f] = row /\ \A g \in Offer \ {f} : offers[g] = loyalty.offers[g]
  BY LoyaltyParts
<1>2. after = [defs |-> loyalty.defs, codes |-> loyalty.codes, offers |-> offers, claims |-> loyalty.claims]
  BY LoyaltyParts
<1> HIDE DEF after, offers
<1>3. after \in LoyaltyState
  BY <1>1, <1>2, LoyaltyParts DEF LoyaltyState
<1>. QED BY <1>1, <1>2, <1>3 DEF after

LEMMA IssueFacts ==
  ASSUME LoyaltyTypeOK, NEW x \in Paired
  PROVE  LET after == Issue(x)
         IN  /\ after \in LoyaltyState
             /\ after.defs = loyalty.defs /\ after.codes = loyalty.codes /\ after.claims = loyalty.claims
             /\ \A g \in Offer \ {x} : after.offers[g] = loyalty.offers[g]
             /\ after.offers[x].state = IF OfferOf(x).state = "none" THEN "issued" ELSE OfferOf(x).state
             /\ OfferOf(x).state # "none" => after = loyalty
<1>1. CASE OfferOf(x).state # "none"
  BY <1>1, StateOfLoyalty DEF Issue, OfferOf
<1>2. CASE OfferOf(x).state = "none"
  <2> DEFINE row == [state |-> "issued", promo |-> x[2], customer |-> x[1], order |-> None]
  <2>1. row \in OfferRow /\ row.state = "issued"
    BY OffersApart DEF OfferRow
  <2>2. Issue(x) = [loyalty EXCEPT !.offers = [@ EXCEPT ![x] = row]]
    BY <1>2 DEF Issue
  <2> HIDE DEF row
  <2>. QED BY <1>2, <2>1, <2>2, OfferWritten, OffersApart
<1>. QED BY <1>1, <1>2

(* Redeem, revoke and expire move one offer on and keep whose it is. *)
LEMMA MovesFacts ==
  ASSUME LoyaltyTypeOK, NEW f \in Offer, NEW from,
         NEW to \in {"none", "issued", "claimed", "redeemed", "revoked", "expired"}
  PROVE  LET after == Moves(f, from, to)
         IN  /\ after \in LoyaltyState
             /\ after.defs = loyalty.defs /\ after.codes = loyalty.codes /\ after.claims = loyalty.claims
             /\ \A g \in Offer \ {f} : after.offers[g] = loyalty.offers[g]
             /\ after.offers[f].order = OfferOf(f).order
             /\ after.offers[f].state = IF OfferOf(f).state \in from THEN to ELSE OfferOf(f).state
<1>1. CASE OfferOf(f).state \notin from
  BY <1>1, StateOfLoyalty DEF Moves, OfferOf
<1>2. CASE OfferOf(f).state \in from
  <2> DEFINE row == [OfferOf(f) EXCEPT !.state = to]
  <2>1. OfferOf(f) \in OfferRow
    BY LoyaltyParts DEF OfferOf
  <2>2. row \in OfferRow /\ row.state = to /\ row.order = OfferOf(f).order
    BY <2>1 DEF OfferRow
  <2>3. Moves(f, from, to) = [loyalty EXCEPT !.offers = [@ EXCEPT ![f] = row]]
    BY <1>2 DEF Moves, OfferOf
  <2> HIDE DEF row
  <2>. QED BY <1>2, <2>2, <2>3, OfferWritten
<1>. QED BY <1>1, <1>2

LEMMA ClaimFacts ==
  ASSUME LoyaltyTypeOK, NEW o \in Order, NEW f \in Offer, NEW k \in Code,
         NEW c \in Customer \union {None}, ~ Replayed(o, f)
  PROVE  LET after == Claim(o, f, k, c)
         IN  /\ after \in LoyaltyState
             /\ after.defs = loyalty.defs /\ after.codes = loyalty.codes
             /\ after.claims[o] = f /\ \A p \in Order \ {o} : after.claims[p] = loyalty.claims[p]
             /\ \A g \in Offer \ {f} : after.offers[g] = loyalty.offers[g]
             /\ after.offers[f].order = o /\ after.offers[f].state = "claimed"
<1> DEFINE row == [state |-> "claimed", customer |-> c, order |-> o,
                   promo |-> IF f \in Paired THEN f[2] ELSE loyalty.codes[k].promo]
           offers == [loyalty.offers EXCEPT ![f] = row]
           claims == [loyalty.claims EXCEPT ![o] = f]
           after == Claim(o, f, k, c)
<1>1. row \in OfferRow /\ row.order = o /\ row.state = "claimed"
  <2>1. loyalty.codes[k].promo \in Promo \union {None}
    BY LoyaltyParts DEF CodeRow, NoBinding
  <2>. QED BY <2>1, OffersApart DEF OfferRow
<1>2. after = [loyalty EXCEPT !.claims = [@ EXCEPT ![o] = f], !.offers = [@ EXCEPT ![f] = row]]
  BY DEF Claim
<1>3. after = [defs |-> loyalty.defs, codes |-> loyalty.codes, offers |-> offers, claims |-> claims]
  BY <1>2, LoyaltyParts
<1> HIDE DEF row, after
<1>4. /\ offers \in [Offer -> OfferRow] /\ offers[f] = row
      /\ \A g \in Offer \ {f} : offers[g] = loyalty.offers[g]
      /\ claims \in [Order -> Offer \union {None}] /\ claims[o] = f
      /\ \A p \in Order \ {o} : claims[p] = loyalty.claims[p]
  BY <1>1, LoyaltyParts
<1> HIDE DEF offers, claims
<1>5. after \in LoyaltyState
  BY <1>3, <1>4, LoyaltyParts DEF LoyaltyState
<1>. QED BY <1>1, <1>3, <1>4, <1>5 DEF after

-----------------------------------------------------------------------------
(* Type correctness. *)

PromotionRow == [state : {"none", "pending_link", "active", "exhausted"},
                 code : Code \union {None}, audience : {"public", "targeted", None}]
OrderRow == [state : {"none", "acknowledged", "in_progress", "completed", "closed"},
             customer : Customer \union {None}, promo : Promo \union {None},
             code : Code \union {None}, offer : Offer \union {None}]
HandlingRow == [at : {"idle", "claim", "create", "revoke", "redeem", "commit"}, promised : BOOLEAN]

CatalogOK ==
    /\ promotions \in [Promo -> PromotionRow]
    /\ eligibility \in [Paired -> {"none", "row", "offer"}]
    /\ requests \in [Request -> Calls \union {Idle}]
ComOK ==
    /\ orders \in [Order -> OrderRow]
    /\ lines \in [Order -> {"none", "full", "discounted"}]
    /\ handling \in [Order -> HandlingRow]
    /\ attempts \in [Order -> 0 .. Attempts]
BoundsOK == faults \in 0 .. MaxFaults /\ lost \in BOOLEAN /\ declined \subseteq Order

LEMMA TypeParts == TypeOK <=> LoyaltyTypeOK /\ CatalogOK /\ ComOK /\ BoundsOK
  BY DEF TypeOK, CatalogOK, ComOK, BoundsOK, PromotionRow, OrderRow, HandlingRow

Creating == {"definition", "code", "confirm"}
Assigning == {"issue", "issued", "expire", "revoke", "remove"}

LEMMA RequestFacts ==
  ASSUME TypeOK, NEW q \in Request
  PROVE  /\ requests[q].at \in Creating => /\ requests[q].promo \in Promo /\ requests[q].code \in Code
                                           /\ requests[q].kind \in Kind
         /\ requests[q].at \in Assigning => /\ requests[q].pair \in Paired
                                            /\ requests[q].offer \in {"row", "offer"}
  BY DEF TypeOK, Calls, Idle, Creating, Assigning

LEMMA RequestMoves ==
  ASSUME TypeOK, NEW q \in Request, NEW r, requests' = [requests EXCEPT ![q] = r]
  PROVE  /\ requests'[q] = r
         /\ \A s \in Request \ {q} : requests'[s] = requests[s]
         /\ r \in Calls \union {Idle} => requests' \in [Request -> Calls \union {Idle}]
  BY DEF TypeOK

LEMMA RequestGoes ==
  ASSUME TypeOK, NEW q \in Request, NEW at, Goes(q, at)
  PROVE  /\ requests'[q].at = at
         /\ \A s \in Request \ {q} : requests'[s] = requests[s]
         /\ at \in Creating /\ requests[q].at \in Creating =>
               requests' \in [Request -> Calls \union {Idle}] /\ requests'[q].promo = requests[q].promo
         /\ at \in Assigning /\ requests[q].at \in Assigning =>
               requests' \in [Request -> Calls \union {Idle}]
<1> DEFINE row == [requests[q] EXCEPT !.at = at]
<1>1. requests' = [requests EXCEPT ![q] = row]
  BY DEF Goes, TypeOK
<1>2. requests[q] \in Calls \union {Idle}
  BY DEF TypeOK
<1>3. row.at = at
  BY <1>2 DEF Calls, Idle
<1>4. ASSUME at \in Creating, requests[q].at \in Creating
      PROVE  row \in Calls /\ row.promo = requests[q].promo
  BY <1>2, <1>4 DEF Calls, Idle, Creating
<1>5. ASSUME at \in Assigning, requests[q].at \in Assigning PROVE row \in Calls
  BY <1>2, <1>5 DEF Calls, Idle, Assigning
<1> HIDE DEF row
<1>. QED BY <1>1, <1>3, <1>4, <1>5, RequestMoves

LEMMA FaultBounds ==
  ASSUME TypeOK, Lose
  PROVE  BoundsOK'
  BY PromoAssumption DEF Lose, TypeOK, BoundsOK

LEMMA TypeInit == Init => TypeInv
<1> SUFFICES ASSUME Init PROVE TypeInv
  OBVIOUS
<1>1. LoyaltyTypeOK
  <2>1. PICK taken \in SUBSET Code :
           loyalty = [defs |-> {},
                      codes |-> [k \in Code |-> IF k \in taken THEN [promo |-> None, kind |-> "multi_use"]
                                                ELSE NoBinding],
                      offers |-> [f \in Offer |-> NoOffer], claims |-> [o \in Order |-> None]]
    BY DEF Init, LoyaltyInit
  <2>2. [k \in Code |-> IF k \in taken THEN [promo |-> None, kind |-> "multi_use"] ELSE NoBinding]
           \in [Code -> CodeRow]
    BY DEF CodeRow
  <2>3. [f \in Offer |-> NoOffer] \in [Offer -> OfferRow]
    BY DEF NoOffer, OfferRow
  <2>4. [o \in Order |-> None] \in [Order -> Offer \union {None}]
    OBVIOUS
  <2>. QED BY <2>1, <2>2, <2>3, <2>4, StateOfLoyalty DEF LoyaltyState
<1>2. CatalogOK
  BY DEF Init, CatalogOK, NoPromotion, PromotionRow
<1>3. ComOK
  BY PromoAssumption DEF Init, ComOK, NoOrder, OrderRow, HandlingRow
<1>4. BoundsOK
  <2>1. faults \in 0 .. MaxFaults
    BY PromoAssumption DEF Init
  <2>2. lost \in BOOLEAN /\ declined \subseteq Order
    BY DEF Init
  <2>. QED BY <2>1, <2>2 DEF BoundsOK
<1>5. Coded
  BY DEF Init, Coded, NoPromotion, Idle, NoOrder
<1>. QED BY <1>1, <1>2, <1>3, <1>4, <1>5, TypeParts DEF TypeInv

LEMMA CreationType ==
  ASSUME TypeInv, NEW q \in Request,
         \/ \E p \in Promo, k \in Code, a \in {"public", "targeted"}, kind \in Kind :
               CreatePromotion(q, p, k, a, kind)
         \/ RegisterOfferDefinition(q) \/ RegisterPromoCode(q) \/ ConfirmLink(q)
  PROVE  LoyaltyTypeOK' /\ CatalogOK' /\ Coded' /\ UNCHANGED <<com, bounds, eligibility>>
<1>0. /\ TypeOK /\ Coded /\ LoyaltyTypeOK /\ CatalogOK /\ ComOK /\ UNCHANGED <<com, bounds, eligibility>>
  BY TypeParts DEF TypeInv, CreatePromotion, RegisterOfferDefinition, RegisterPromoCode, ConfirmLink
<1>1. ASSUME NEW p \in Promo, NEW k \in Code, NEW a \in {"public", "targeted"}, NEW kind \in Kind,
             CreatePromotion(q, p, k, a, kind)
      PROVE  LoyaltyTypeOK' /\ CatalogOK' /\ Coded'
  <2> DEFINE call == [at |-> "definition", promo |-> p, code |-> k, kind |-> kind]
  <2>1. call \in Calls /\ call.at = "definition" /\ call.promo = p
    BY DEF Calls
  <2>2. /\ requests'[q] = call /\ \A s \in Request \ {q} : requests'[s] = requests[s]
        /\ requests' \in [Request -> Calls \union {Idle}]
    <3>1. requests' = [requests EXCEPT ![q] = call]
      BY <1>1 DEF CreatePromotion
    <3> HIDE DEF call
    <3>. QED BY <1>0, <2>1, <3>1, RequestMoves
  <2>3. /\ promotions' \in [Promo -> PromotionRow]
        /\ \A r \in Promo : /\ promotions'[r].state # "none" => promotions'[r].code \in Code
                            /\ promotions[r].state # "none" => promotions'[r].state # "none"
        /\ promotions'[p].state # "none"
    <3>1. CASE UNCHANGED promotions
      BY <1>0, <1>1, <3>1 DEF CreatePromotion, CatalogOK, Coded
    <3>2. CASE promotions' = [promotions EXCEPT ![p] = [state |-> "pending_link", code |-> k, audience |-> a]]
      BY <1>0, <3>2 DEF CatalogOK, Coded, PromotionRow
    <3>. QED BY <1>1, <3>1, <3>2 DEF CreatePromotion
  <2>4. \A s \in Request : requests[s].at \in Creating => requests[s].promo \in Promo
    BY <1>0, RequestFacts
  <2>5. LoyaltyTypeOK'
    BY <1>0, <1>1 DEF CreatePromotion, LoyaltyTypeOK
  <2>6. CatalogOK'
    BY <1>0, <2>2, <2>3 DEF CatalogOK
  <2>7. Coded'
    <3> HIDE DEF call
    <3>. QED BY <1>0, <2>1, <2>2, <2>3, <2>4 DEF Coded, Creating, com
  <2>. QED BY <2>5, <2>6, <2>7
<1>2. CASE RegisterOfferDefinition(q) \/ RegisterPromoCode(q)
  <2>1. /\ requests[q].at \in Creating /\ requests[q].promo \in Promo /\ requests[q].code \in Code
        /\ requests[q].kind \in Kind
    BY <1>0, <1>2, RequestFacts DEF RegisterOfferDefinition, RegisterPromoCode, At, Creating
  <2>2. loyalty' \in LoyaltyState
    <3>1. RegisterDefinition(requests[q].promo) \in LoyaltyState
      BY <1>0, <2>1, DefinitionFacts
    <3>2. RegisterCode(requests[q].promo, requests[q].code, requests[q].kind) \in LoyaltyState
      BY <1>0, <2>1, CodeFacts
    <3>3. loyalty \in LoyaltyState
      BY <1>0, StateOfLoyalty
    <3>. QED BY <1>2, <3>1, <3>2, <3>3 DEF RegisterOfferDefinition, RegisterPromoCode, Asked
  <2>3. LoyaltyTypeOK'
    BY <2>2 DEF LoyaltyState, OfferRow, CodeRow, LoyaltyTypeOK
  <2>4. /\ requests' \in [Request -> Calls \union {Idle}]
        /\ \A s \in Request \ {q} : requests'[s] = requests[s]
        /\ requests'[q].at \in Creating => requests'[q].promo = requests[q].promo
    <3>1. CASE Ends(q)
      BY <1>0, <3>1, RequestMoves DEF Ends, Idle, Creating
    <3>2. ASSUME NEW at \in Creating, Goes(q, at) 
          PROVE  /\ requests' \in [Request -> Calls \union {Idle}]
                 /\ \A s \in Request \ {q} : requests'[s] = requests[s]
                 /\ requests'[q].at \in Creating => requests'[q].promo = requests[q].promo
      BY <1>0, <2>1, <3>2, RequestGoes
    <3>. QED BY <1>2, <3>1, <3>2 DEF RegisterOfferDefinition, RegisterPromoCode, Creating
  <2>5. UNCHANGED promotions
    BY <1>2 DEF RegisterOfferDefinition, RegisterPromoCode
  <2>6. CatalogOK' /\ Coded'
    BY <1>0, <2>1, <2>4, <2>5 DEF CatalogOK, Coded, com, Creating
  <2>. QED BY <1>0, <2>3, <2>6
<1>3. CASE ConfirmLink(q)
  <2>1. requests[q].at \in Creating /\ requests[q].promo \in Promo
    BY <1>0, <1>3, RequestFacts DEF ConfirmLink, At, Creating
  <2>2. requests' \in [Request -> Calls \union {Idle}] /\ requests'[q] = Idle
        /\ \A s \in Request \ {q} : requests'[s] = requests[s]
    BY <1>0, <1>3, RequestMoves DEF ConfirmLink, Ends
  <2>3. promotions' = [promotions EXCEPT ![requests[q].promo].state = "active"] /\ UNCHANGED loyalty
    BY <1>3 DEF ConfirmLink, Asked
  <2>4. /\ promotions' \in [Promo -> PromotionRow]
        /\ \A r \in Promo : promotions'[r].code = promotions[r].code
        /\ \A r \in Promo : promotions[r].state # "none" <=> promotions'[r].state # "none"
    <3>1. promotions[requests[q].promo].state # "none"
      BY <1>0, <2>1 DEF Coded, Creating
    <3>. QED BY <1>0, <2>1, <2>3, <3>1 DEF CatalogOK, PromotionRow
  <2>5. \A s \in Request : requests[s].at \in Creating => requests[s].promo \in Promo
    BY <1>0, RequestFacts
  <2>6. CatalogOK' /\ Coded'
    BY <1>0, <2>2, <2>4, <2>5 DEF CatalogOK, Coded, com, Creating, Idle
  <2>7. LoyaltyTypeOK'
    BY <1>0, <2>3 DEF LoyaltyTypeOK
  <2>. QED BY <1>0, <2>6, <2>7
<1>. QED BY <1>0, <1>1, <1>2, <1>3

LEMMA ExhaustType ==
  ASSUME TypeInv, NEW p \in Promo, Exhaust(p)
  PROVE  LoyaltyTypeOK' /\ CatalogOK' /\ Coded' /\ UNCHANGED <<com, bounds, eligibility>>
<1>1. /\ TypeOK /\ Coded /\ LoyaltyTypeOK /\ CatalogOK
      /\ UNCHANGED <<loyalty, com, bounds, eligibility, requests>>
  BY TypeParts DEF TypeInv, Exhaust
<1>2. /\ promotions' \in [Promo -> PromotionRow]
      /\ \A r \in Promo : promotions'[r].code = promotions[r].code
      /\ \A r \in Promo : promotions[r].state # "none" <=> promotions'[r].state # "none"
  BY <1>1 DEF Exhaust, CatalogOK, PromotionRow
<1>3. \A s \in Request : requests[s].at \in Creating => requests[s].promo \in Promo
  BY <1>1, RequestFacts
<1>4. CatalogOK' /\ Coded'
  BY <1>1, <1>2, <1>3 DEF CatalogOK, Coded, com, Creating
<1>5. LoyaltyTypeOK'
  BY <1>1 DEF LoyaltyTypeOK
<1>. QED BY <1>1, <1>4, <1>5

(* Offers get older: issued, expired, revoked, and stay whose they are. *)
OffersAge ==
    /\ loyalty'.claims = loyalty.claims
    /\ \A f \in Offer :
          \/ loyalty'.offers[f] = loyalty.offers[f]
          \/ /\ OfferOf(f).state \in {"none", "issued"}
             /\ loyalty'.offers[f].state \in {"issued", "expired"}
          \/ /\ Live(f) /\ loyalty'.offers[f].state = "revoked"
             /\ loyalty'.offers[f].order = OfferOf(f).order

(* What catalog's calls about one customer make of loyalty. *)
LEMMA PairFacts ==
  ASSUME LoyaltyTypeOK, NEW x \in Paired, loyalty' \in {loyalty, Issue(x), Expire(x), Revoke(x)}
  PROVE  /\ LoyaltyTypeOK' /\ OffersAge
         /\ loyalty'.defs = loyalty.defs /\ loyalty'.codes = loyalty.codes
<1>1. loyalty' \in LoyaltyState => LoyaltyTypeOK'
  BY DEF LoyaltyState, OfferRow, CodeRow, LoyaltyTypeOK
<1>2. CASE loyalty' = loyalty
  BY <1>1, <1>2, StateOfLoyalty DEF OffersAge
<1>3. CASE loyalty' = Issue(x)
  BY <1>1, <1>3, IssueFacts DEF OffersAge
<1>4. CASE loyalty' = Expire(x)
  <2>1. x \in Offer
    BY OffersApart
  <2>2. /\ loyalty' \in LoyaltyState
        /\ loyalty'.defs = loyalty.defs /\ loyalty'.codes = loyalty.codes
        /\ loyalty'.claims = loyalty.claims
        /\ \A g \in Offer \ {x} : loyalty'.offers[g] = loyalty.offers[g]
        /\ loyalty'.offers[x].order = OfferOf(x).order
        /\ OfferOf(x).state \in {"issued"} => loyalty'.offers[x].state = "expired"
    BY <1>4, <2>1, MovesFacts DEF Expire
  <2>3. OfferOf(x).state \notin {"issued"} => loyalty' = loyalty
    BY <1>4 DEF Expire, Moves
  <2>. QED BY <1>1, <2>2, <2>3, LoyaltyAssumption DEF OffersAge, OfferOf, Live
<1>5. CASE loyalty' = Revoke(x)
  <2>1. x \in Offer
    BY OffersApart
  <2>2. /\ loyalty' \in LoyaltyState
        /\ loyalty'.defs = loyalty.defs /\ loyalty'.codes = loyalty.codes
        /\ loyalty'.claims = loyalty.claims
        /\ \A g \in Offer \ {x} : loyalty'.offers[g] = loyalty.offers[g]
        /\ loyalty'.offers[x].order = OfferOf(x).order
        /\ OfferOf(x).state \in Revocable => loyalty'.offers[x].state = "revoked"
    BY <1>5, <2>1, MovesFacts DEF Revoke
  <2>3. OfferOf(x).state \notin Revocable => loyalty' = loyalty
    BY <1>5 DEF Revoke, Moves
  <2>. QED BY <1>1, <2>2, <2>3, LoyaltyAssumption DEF OffersAge, OfferOf, Live
<1>. QED BY <1>2, <1>3, <1>4, <1>5

LEMMA AssignmentType ==
  ASSUME TypeInv, NEW q \in Request,
         \/ \E x \in Paired : AssignTargeted(q, x) \/ UnassignTargeted(q, x)
         \/ IssueOffer(q) \/ AddEligibility(q) \/ ExpireOffer(q) \/ RevokeOffer(q)
         \/ RemoveEligibility(q) \/ Stop(q)
  PROVE  /\ LoyaltyTypeOK' /\ CatalogOK' /\ Coded' /\ BoundsOK' /\ UNCHANGED <<com, promotions>>
         /\ OffersAge /\ loyalty'.defs = loyalty.defs /\ loyalty'.codes = loyalty.codes
         /\ requests'[q].at \notin Creating /\ \A s \in Request \ {q} : requests'[s] = requests[s]
<1>0. /\ TypeOK /\ Coded /\ LoyaltyTypeOK /\ CatalogOK /\ ComOK /\ BoundsOK /\ UNCHANGED <<com, promotions>>
  BY TypeParts DEF TypeInv, AssignTargeted, UnassignTargeted, IssueOffer, AddEligibility, ExpireOffer,
                   RevokeOffer, RemoveEligibility, Stop
<1>1. /\ LoyaltyTypeOK' /\ OffersAge
      /\ loyalty'.defs = loyalty.defs /\ loyalty'.codes = loyalty.codes
  <2>1. CASE UNCHANGED loyalty
    BY <1>0, <2>1, StateOfLoyalty DEF OffersAge, LoyaltyTypeOK
  <2>2. CASE IssueOffer(q) \/ ExpireOffer(q) \/ RevokeOffer(q)
    <3>1. requests[q].pair \in Paired
      BY <1>0, <2>2, RequestFacts DEF IssueOffer, ExpireOffer, RevokeOffer, At, Assigning
    <3>2. loyalty' \in {loyalty, Issue(requests[q].pair), Expire(requests[q].pair), Revoke(requests[q].pair)}
      BY <2>2 DEF IssueOffer, ExpireOffer, RevokeOffer, Asked
    <3>. QED BY <1>0, <3>1, <3>2, PairFacts
  <2>. QED BY <2>1, <2>2 DEF AssignTargeted, UnassignTargeted, AddEligibility, RemoveEligibility, Stop
<1>2. BoundsOK'
  BY <1>0, FaultBounds DEF AssignTargeted, UnassignTargeted, IssueOffer, AddEligibility, ExpireOffer,
                   RevokeOffer, RemoveEligibility, Stop, bounds, BoundsOK
<1>3. /\ requests' \in [Request -> Calls \union {Idle}]
      /\ requests'[q].at \notin Creating /\ \A s \in Request \ {q} : requests'[s] = requests[s]
  <2>1. CASE Ends(q)
    BY <1>0, <2>1, RequestMoves DEF Ends, Idle, Creating
  <2>2. ASSUME NEW at \in Assigning, Goes(q, at), requests[q].at \in Assigning
        PROVE  /\ requests' \in [Request -> Calls \union {Idle}]
               /\ requests'[q].at \notin Creating /\ \A s \in Request \ {q} : requests'[s] = requests[s]
    BY <1>0, <2>2, RequestGoes DEF Creating, Assigning
  <2>3. CASE \E x \in Paired : AssignTargeted(q, x) \/ UnassignTargeted(q, x)
    <3>1. PICK x \in Paired : AssignTargeted(q, x) \/ UnassignTargeted(q, x)
      BY <2>3
    <3>2. PICK r \in Calls : requests' = [requests EXCEPT ![q] = r] /\ r.at \notin Creating
      <4>1. CASE AssignTargeted(q, x)
        <5>1. [at |-> "issue", pair |-> x, offer |-> "offer"] \in Calls
          BY DEF Calls
        <5>. QED BY <4>1, <5>1 DEF AssignTargeted, Creating
      <4>2. CASE UnassignTargeted(q, x)
        <5>1. eligibility[x] \in {"row", "offer"}
          BY <1>0, <4>2 DEF UnassignTargeted, CatalogOK
        <5>2. [at |-> IF eligibility[x] = "offer" THEN "expire" ELSE "remove",
               pair |-> x, offer |-> eligibility[x]] \in Calls
          BY <5>1 DEF Calls
        <5>. QED BY <4>2, <5>2 DEF UnassignTargeted, Creating
      <4>. QED BY <3>1, <4>1, <4>2
    <3>. QED BY <1>0, <3>2, RequestMoves
  <2>4. CASE /\ requests' = [requests EXCEPT ![q].at = "issued", ![q].offer = "row"]
             /\ At(q, "issue")
    <3> DEFINE r == [[requests[q] EXCEPT !.at = "issued"] EXCEPT !.offer = "row"]
    <3>1. r \in Calls /\ r.at = "issued"
      <4>1. requests[q] \in Calls \union {Idle}
        BY <1>0 DEF CatalogOK
      <4>2. requests[q] \in [at : Assigning, pair : Paired, offer : {"row", "offer"}]
        BY <2>4, <4>1 DEF At, Calls, Idle, Assigning
      <4>3. r \in [at : Assigning, pair : Paired, offer : {"row", "offer"}] /\ r.at = "issued"
        BY <4>2 DEF Assigning
      <4>. QED BY <4>3 DEF Calls, Assigning
    <3>2. requests' = [requests EXCEPT ![q] = r]
      BY <1>0, <2>4 DEF CatalogOK
    <3> HIDE DEF r
    <3>. QED BY <1>0, <3>1, <3>2, RequestMoves DEF Creating
  <2>. QED BY <2>1, <2>2, <2>3, <2>4
           DEF IssueOffer, AddEligibility, ExpireOffer, RevokeOffer, RemoveEligibility, Stop, At, Assigning
<1>4. eligibility' \in [Paired -> {"none", "row", "offer"}]
  <2>1. At(q, "issued") \/ At(q, "remove") => requests[q].pair \in Paired /\ requests[q].offer \in {"row", "offer"}
    BY <1>0, RequestFacts DEF At, Assigning
  <2>. QED BY <1>0, <2>1
           DEF AssignTargeted, UnassignTargeted, IssueOffer, AddEligibility, ExpireOffer,
               RevokeOffer, RemoveEligibility, Stop, CatalogOK, Asked
<1>5. CatalogOK'
  BY <1>0, <1>3, <1>4 DEF CatalogOK
<1>6. Coded'
  BY <1>0, <1>3 DEF Coded, Creating, com
<1>. QED BY <1>0, <1>1, <1>2, <1>3, <1>5, <1>6

LEMMA HandlingMoves ==
  ASSUME TypeOK, NEW o \in Order, NEW at \in {"idle", "claim", "create", "revoke", "redeem", "commit"},
         NEW promised \in BOOLEAN, Step(o, at, promised)
  PROVE  /\ handling' \in [Order -> HandlingRow]
         /\ handling'[o].at = at /\ handling'[o].promised = promised
         /\ \A p \in Order \ {o} : handling'[p] = handling[p]
<1> DEFINE row == [at |-> at, promised |-> promised]
<1>1. row \in HandlingRow /\ row.at = at /\ row.promised = promised
  BY DEF HandlingRow
<1>2. handling \in [Order -> HandlingRow] /\ handling' = [handling EXCEPT ![o] = row]
  BY DEF TypeOK, HandlingRow, Step
<1> HIDE DEF row
<1>. QED BY <1>1, <1>2

LEMMA HandlerFacts ==
  ASSUME TypeInv, NEW o \in Order
  PROVE  /\ handling[o].promised \in BOOLEAN
         /\ handling[o].at \in {"idle", "claim", "create", "revoke", "redeem", "commit"}
         /\ OfferFor(o) \in Offer
         /\ lines[o] \in {"none", "full", "discounted"}
<1>1. handling[o] \in HandlingRow /\ orders[o] \in OrderRow
  BY DEF TypeInv, TypeOK, HandlingRow, OrderRow
<1>2. OfferFor(o) \in Offer
  BY <1>1, OffersApart DEF OfferFor, OrderRow
<1>. QED BY <1>1, <1>2 DEF HandlingRow, TypeInv, TypeOK

(* The order's entitlement is claimed for the first time. *)
NewClaim(o) ==
    LET f == OfferFor(o)
    IN  /\ loyalty.claims[o] = None
        /\ f \in Paired => OfferOf(f).state = "issued"
        /\ loyalty'.claims[o] = f /\ \A p \in Order \ {o} : loyalty'.claims[p] = loyalty.claims[p]
        /\ loyalty'.offers[f].order = o /\ loyalty'.offers[f].state = "claimed"
        /\ \A g \in Offer \ {f} : loyalty'.offers[g] = loyalty.offers[g]

LEMMA EntitlementFacts ==
  ASSUME TypeInv, NEW o \in Order, ClaimEntitlement(o)
  PROVE  /\ LoyaltyTypeOK' /\ BoundsOK' /\ UNCHANGED <<catalog, orders, lines, attempts>>
         /\ loyalty'.defs = loyalty.defs /\ loyalty'.codes = loyalty.codes
         /\ loyalty' = loyalty \/ NewClaim(o)
         /\ handling' \in [Order -> HandlingRow] /\ handling[o].at = "claim" /\ handling'[o].at = "create"
         /\ \A p \in Order \ {o} : handling'[p] = handling[p]
         /\ handling'[o].promised => loyalty'.claims[o] # None
         /\ ~ lost' /\ ~ handling'[o].promised => loyalty'.claims[o] = None
         /\ lost => lost'
<1> DEFINE f == OfferFor(o)
           c == orders[o].customer
           k == orders[o].code
           refused == ClaimRefused(o, f, k, c)
           after == IF refused THEN loyalty ELSE Claim(o, f, k, c)
<1>0. /\ TypeOK /\ LoyaltyTypeOK /\ BoundsOK /\ handling[o].at = "claim" /\ f \in Offer
      /\ UNCHANGED <<catalog, orders, lines, attempts>>
  BY TypeParts, HandlerFacts DEF TypeInv, ClaimEntitlement, Handles
<1>1. k \in Code /\ c \in Customer \union {None}
  BY <1>0 DEF TypeInv, Coded, TypeOK
<1>2. /\ \/ loyalty' = after /\ Step(o, "create", ~ refused) /\ UNCHANGED bounds
         \/ Lose /\ loyalty' \in {loyalty, after} /\ Step(o, "create", FALSE)
  BY DEF ClaimEntitlement
<1>3. \/ after = loyalty /\ (refused => loyalty.claims[o] = None) /\ (~ refused => loyalty.claims[o] # None)
      \/ /\ ~ refused /\ loyalty.claims[o] = None
         /\ f \in Paired => OfferOf(f).state = "issued"
         /\ after = Claim(o, f, k, c)
  BY DEF ClaimRefused, Replayed, Claim
<1>4. ASSUME loyalty.claims[o] = None
      PROVE  LET claim == Claim(o, f, k, c)
             IN  /\ claim \in LoyaltyState
                 /\ claim.defs = loyalty.defs /\ claim.codes = loyalty.codes
                 /\ claim.claims[o] = f /\ \A p \in Order \ {o} : claim.claims[p] = loyalty.claims[p]
                 /\ \A g \in Offer \ {f} : claim.offers[g] = loyalty.offers[g]
                 /\ claim.offers[f].order = o /\ claim.offers[f].state = "claimed"
  <2> HIDE DEF f, c, k
  <2>. QED BY <1>0, <1>1, <1>4, ClaimFacts DEF Replayed
<1>5. f # None
  BY <1>0, OffersApart
<1>6. BoundsOK' /\ (lost => lost')
  <2>1. CASE UNCHANGED bounds
    BY <1>0, <2>1 DEF bounds, BoundsOK
  <2>2. CASE Lose
    BY <1>0, <2>2, FaultBounds DEF Lose
  <2>. QED BY <1>2, <2>1, <2>2
<1>7. refused \in BOOLEAN
  BY DEF ClaimRefused
<1>8. /\ handling' \in [Order -> HandlingRow] /\ handling'[o].at = "create"
      /\ \A p \in Order \ {o} : handling'[p] = handling[p]
      /\ \/ loyalty' = after /\ (handling'[o].promised <=> ~ refused)
         \/ lost' = TRUE /\ loyalty' \in {loyalty, after} /\ ~ handling'[o].promised
  <2> HIDE DEF refused, after
  <2>1. CASE loyalty' = after /\ Step(o, "create", ~ refused)
    <3>1. (~ refused) \in BOOLEAN
      BY <1>7
    <3>2. /\ handling' \in [Order -> HandlingRow] /\ handling'[o].at = "create"
          /\ handling'[o].promised = (~ refused) /\ \A p \in Order \ {o} : handling'[p] = handling[p]
      BY <1>0, <2>1, <3>1, HandlingMoves
    <3>. QED BY <2>1, <3>2
  <2>2. CASE lost' = TRUE /\ loyalty' \in {loyalty, after} /\ Step(o, "create", FALSE)
    BY <1>0, <2>2, HandlingMoves
  <2>. QED BY <1>2, <2>1, <2>2 DEF Lose
<1>9. CASE loyalty' = loyalty
  <2>1. LoyaltyTypeOK'
    BY <1>0, <1>9 DEF LoyaltyTypeOK
  <2>2. /\ handling'[o].promised => loyalty'.claims[o] # None
        /\ ~ lost' /\ ~ handling'[o].promised => loyalty'.claims[o] = None
    <3>1. loyalty.claims[o] = None => Claim(o, f, k, c) # loyalty
      BY <1>4, <1>5
    <3> HIDE DEF refused, after, f, k, c
    <3>2. loyalty' = after => (refused <=> loyalty.claims[o] = None)
      BY <1>3, <1>9, <3>1
    <3>. QED BY <1>8, <1>9, <3>2
  <2>. QED BY <1>0, <1>6, <1>8, <1>9, <2>1, <2>2
<1>10. CASE loyalty' # loyalty
  <2>1. /\ loyalty' = Claim(o, f, k, c) /\ loyalty.claims[o] = None
        /\ f \in Paired => OfferOf(f).state = "issued"
        /\ handling'[o].promised \/ lost'
    <3> HIDE DEF refused, after, f, k, c
    <3>. QED BY <1>3, <1>8, <1>10
  <2>2. /\ loyalty' \in LoyaltyState /\ NewClaim(o)
        /\ loyalty'.defs = loyalty.defs /\ loyalty'.codes = loyalty.codes /\ loyalty'.claims[o] # None
    BY <1>4, <1>5, <2>1 DEF NewClaim
  <2>3. LoyaltyTypeOK'
    BY <2>2 DEF LoyaltyState, OfferRow, CodeRow, LoyaltyTypeOK
  <2>. QED BY <1>0, <1>6, <1>8, <2>1, <2>2, <2>3
<1>. QED BY <1>9, <1>10

LEMMA LineFacts ==
  ASSUME TypeInv, NEW o \in Order, CreateLine(o)
  PROVE  /\ BoundsOK' /\ (lost => lost') /\ UNCHANGED <<loyalty, catalog, orders, attempts>>
         /\ handling[o].at = "create" /\ handling' \in [Order -> HandlingRow]
         /\ \A p \in Order \ {o} : handling'[p] = handling[p] /\ lines'[p] = lines[p]
         /\ handling'[o].promised = handling[o].promised
         /\ handling'[o].at = "revoke" \/ handling'[o].at = "redeem" => handling[o].promised
         /\ lines' \in [Order -> {"none", "full", "discounted"}]
         /\ \/ lines'[o] = lines[o]
            \/ /\ lines[o] = "none"
               /\ lines'[o] = IF handling[o].promised THEN "discounted" ELSE "full"
         /\ handling'[o].at \in {"revoke", "redeem", "commit", "idle"}
         /\ declined \subseteq declined'
         /\ ~ lost' => \/ /\ lines'[o] = lines[o] /\ lines[o] = "none" /\ o \in declined'
                          /\ handling'[o].at = IF handling[o].promised THEN "revoke" ELSE "idle"
                       \/ /\ lines[o] = "none" => lines'[o] = IF handling[o].promised THEN "discounted" ELSE "full"
                          /\ handling'[o].at = IF handling[o].promised THEN "redeem" ELSE "commit"
<1> DEFINE sold == [lines EXCEPT ![o] = IF @ # "none" THEN @
                                        ELSE IF Promised(o) THEN "discounted" ELSE "full"]
           refused == Step(o, IF Promised(o) THEN "revoke" ELSE "idle", Promised(o))
           accepted == Step(o, IF Promised(o) THEN "redeem" ELSE "commit", Promised(o))
<1>0. /\ TypeOK /\ BoundsOK /\ handling[o].at = "create" /\ handling[o].promised \in BOOLEAN
      /\ UNCHANGED <<loyalty, catalog, orders, attempts>>
      /\ lines \in [Order -> {"none", "full", "discounted"}]
  BY TypeParts, HandlerFacts DEF TypeInv, CreateLine, Handles, ComOK
<1>1. \/ lines' = sold /\ UNCHANGED bounds /\ accepted
      \/ /\ lines[o] = "none" /\ refused
         /\ declined' = declined \union {o} /\ UNCHANGED <<lines, faults, lost>>
      \/ Lose /\ lines' \in {lines, sold} /\ refused
  BY DEF CreateLine
<1>2. /\ sold \in [Order -> {"none", "full", "discounted"}]
      /\ \A p \in Order \ {o} : sold[p] = lines[p]
      /\ lines[o] # "none" => sold[o] = lines[o]
      /\ lines[o] = "none" => sold[o] = IF handling[o].promised THEN "discounted" ELSE "full"
  BY <1>0 DEF Promised
<1>3. ASSUME refused
      PROVE  /\ handling' \in [Order -> HandlingRow]
             /\ handling'[o].at = IF handling[o].promised THEN "revoke" ELSE "idle"
             /\ handling'[o].promised = handling[o].promised
             /\ \A p \in Order \ {o} : handling'[p] = handling[p]
  <2>1. (IF Promised(o) THEN "revoke" ELSE "idle") \in {"idle", "claim", "create", "revoke", "redeem", "commit"}
    OBVIOUS
  <2>. QED BY <1>0, <1>3, <2>1, HandlingMoves DEF Promised
<1>4. ASSUME accepted
      PROVE  /\ handling' \in [Order -> HandlingRow]
             /\ handling'[o].at = IF handling[o].promised THEN "redeem" ELSE "commit"
             /\ handling'[o].promised = handling[o].promised
             /\ \A p \in Order \ {o} : handling'[p] = handling[p]
  <2>1. (IF Promised(o) THEN "redeem" ELSE "commit") \in {"idle", "claim", "create", "revoke", "redeem", "commit"}
    OBVIOUS
  <2>. QED BY <1>0, <1>4, <2>1, HandlingMoves DEF Promised
<1>5. BoundsOK' /\ (lost => lost') /\ declined \subseteq declined'
  <2>1. CASE UNCHANGED bounds
    BY <1>0, <2>1 DEF bounds, BoundsOK
  <2>2. CASE Lose
    BY <1>0, <2>2, FaultBounds DEF Lose
  <2>3. CASE declined' = declined \union {o} /\ UNCHANGED <<faults, lost>>
    BY <1>0, <2>3 DEF BoundsOK
  <2>. QED BY <1>1, <2>1, <2>2, <2>3
<1> HIDE DEF sold, refused, accepted
<1>6. CASE lines' = sold /\ accepted
  BY <1>0, <1>2, <1>4, <1>5, <1>6
<1>7. CASE lines[o] = "none" /\ lines' = lines /\ refused /\ o \in declined'
  BY <1>0, <1>3, <1>5, <1>7
<1>8. CASE lost' = TRUE /\ lines' \in {lines, sold} /\ refused
  BY <1>0, <1>2, <1>3, <1>5, <1>8
<1>. QED BY <1>1, <1>6, <1>7, <1>8 DEF Lose

(* The handler's other steps: they touch one order's handling, and loyalty's offers. *)
LEMMA HandlerMoves ==
  ASSUME TypeInv, NEW o \in Order,
         RevokeEntitlement(o) \/ RedeemEntitlement(o) \/ CompleteOrder(o) \/ Crash(o) \/ Begin(o)
  PROVE  /\ LoyaltyTypeOK' /\ BoundsOK' /\ (lost => lost') /\ UNCHANGED <<catalog, lines>>
         /\ loyalty'.defs = loyalty.defs /\ loyalty'.codes = loyalty.codes
         /\ loyalty'.claims = loyalty.claims
         /\ \A p \in Order \ {o} : handling'[p] = handling[p]
         /\ handling' \in [Order -> HandlingRow]
         /\ attempts' \in [Order -> 0 .. Attempts]
         /\ \A p \in Order : attempts'[p] = attempts[p] \/ (p = o /\ Begin(o) /\ attempts'[p] # 0)
<1>0. /\ TypeOK /\ LoyaltyTypeOK /\ BoundsOK /\ ComOK /\ OfferFor(o) \in Offer /\ UNCHANGED <<catalog, lines>>
  BY TypeParts, HandlerFacts
     DEF TypeInv, RevokeEntitlement, RedeemEntitlement, CompleteOrder, Crash, Begin
<1>1. LoyaltyTypeOK' /\ loyalty'.defs = loyalty.defs /\ loyalty'.codes = loyalty.codes
      /\ loyalty'.claims = loyalty.claims
  <2>1. CASE loyalty' = loyalty
    BY <1>0, <2>1 DEF LoyaltyTypeOK
  <2>2. CASE loyalty' \in {Revoke(OfferFor(o)), Redeem(OfferFor(o))}
    <3>1. /\ loyalty' \in LoyaltyState
          /\ loyalty'.defs = loyalty.defs /\ loyalty'.codes = loyalty.codes
          /\ loyalty'.claims = loyalty.claims
      BY <1>0, <2>2, MovesFacts DEF Revoke, Redeem
    <3>. QED BY <3>1 DEF LoyaltyState, OfferRow, CodeRow, LoyaltyTypeOK
  <2>. QED BY <2>1, <2>2 DEF RevokeEntitlement, RedeemEntitlement, CompleteOrder, Crash, Begin
<1>2. BoundsOK' /\ (lost => lost')
  <2>1. CASE UNCHANGED bounds
    BY <1>0, <2>1 DEF bounds, BoundsOK
  <2>2. CASE Lose
    BY <1>0, <2>2, FaultBounds DEF Lose
  <2>. QED BY <2>1, <2>2 DEF RevokeEntitlement, RedeemEntitlement, CompleteOrder, Crash, Begin
<1>3. PICK at \in {"idle", "claim", "create", "commit"}, promised \in BOOLEAN : Step(o, at, promised)
  BY DEF RevokeEntitlement, RedeemEntitlement, CompleteOrder, Crash, Begin
<1>4. /\ attempts' \in [Order -> 0 .. Attempts]
      /\ \A p \in Order : attempts'[p] = attempts[p] \/ (p = o /\ Begin(o) /\ attempts'[p] # 0)
  <2>1. attempts \in [Order -> 0 .. Attempts] /\ Attempts \in Nat
    BY <1>0, PromoAssumption DEF ComOK
  <2>2. CASE Begin(o)
    <3>1. attempts' = [attempts EXCEPT ![o] = attempts[o] + 1] /\ attempts[o] < Attempts
      BY <2>2 DEF Begin
    <3>2. attempts[o] \in Nat /\ attempts[o] + 1 # 0 /\ attempts[o] + 1 \in 0 .. Attempts
      BY <2>1, <3>1
    <3>3. attempts'[o] = attempts[o] + 1 /\ \A p \in Order \ {o} : attempts'[p] = attempts[p]
      BY <2>1, <3>1
    <3>4. attempts'[o] # 0
      BY <3>2, <3>3
    <3>. QED BY <2>1, <2>2, <3>1, <3>2, <3>3, <3>4
  <2>3. CASE UNCHANGED attempts
    BY <2>1, <2>3
  <2>. QED BY <2>2, <2>3 DEF RevokeEntitlement, RedeemEntitlement, CompleteOrder, Crash
<1>. QED BY <1>0, <1>1, <1>2, <1>3, <1>4, HandlingMoves

LEMMA HandlerType ==
  ASSUME TypeInv, NEW o \in Order,
         \/ Begin(o) \/ ClaimEntitlement(o) \/ CreateLine(o)
         \/ RevokeEntitlement(o) \/ RedeemEntitlement(o) \/ CompleteOrder(o) \/ Crash(o)
  PROVE  TypeInv'
<1>0. TypeOK /\ Coded /\ LoyaltyTypeOK /\ CatalogOK /\ ComOK
  BY TypeParts DEF TypeInv
<1>1. /\ LoyaltyTypeOK' /\ BoundsOK' /\ UNCHANGED catalog
      /\ lines' \in [Order -> {"none", "full", "discounted"}]
      /\ handling' \in [Order -> HandlingRow] /\ attempts' \in [Order -> 0 .. Attempts]
      /\ \A p \in Order \ {o} : handling'[p] = handling[p]
      /\ \A p \in Order : attempts'[p] = attempts[p] \/ (p = o /\ Begin(o) /\ attempts'[p] # 0)
  <2>1. CASE ClaimEntitlement(o)
    BY <1>0, <2>1, EntitlementFacts DEF ComOK
  <2>2. CASE CreateLine(o)
    <3>1. UNCHANGED <<loyalty, catalog, attempts>>
      BY <2>2, LineFacts
    <3>2. LoyaltyTypeOK' /\ attempts' \in [Order -> 0 .. Attempts]
      BY <1>0, <3>1 DEF LoyaltyTypeOK, ComOK
    <3>. QED BY <2>2, <3>1, <3>2, LineFacts
  <2>3. CASE \/ Begin(o) \/ RevokeEntitlement(o) \/ RedeemEntitlement(o) \/ CompleteOrder(o) \/ Crash(o)
    BY <1>0, <2>3, HandlerMoves DEF ComOK
  <2>. QED BY <2>1, <2>2, <2>3
<1>2. CASE CompleteOrder(o)
  <2>1. /\ orders' = [orders EXCEPT ![o].state = "completed",
                                    ![o].offer = IF Promised(o) THEN OfferFor(o) ELSE @]
        /\ Step(o, "idle", FALSE)
    BY <1>2 DEF CompleteOrder
  <2>2. OfferFor(o) \in Offer
    BY HandlerFacts
  <2>3. /\ orders' \in [Order -> OrderRow]
        /\ \A p \in Order : orders'[p].promo = orders[p].promo /\ orders'[p].code = orders[p].code
        /\ \A p \in Order \ {o} : orders'[p].state = orders[p].state
    <3> DEFINE offer == IF Promised(o) THEN OfferFor(o) ELSE orders[o].offer
               row == [[orders[o] EXCEPT !.state = "completed"] EXCEPT !.offer = offer]
    <3>1. orders \in [Order -> OrderRow] /\ orders[o] \in OrderRow
      BY <1>0 DEF ComOK
    <3>2. offer \in Offer \union {None}
      BY <2>2, <3>1 DEF OrderRow
    <3>3. orders' = [orders EXCEPT ![o] = row]
      BY <2>1, <3>1
    <3> HIDE DEF offer
    <3>4. row \in OrderRow /\ row.promo = orders[o].promo /\ row.code = orders[o].code
      BY <3>1, <3>2 DEF OrderRow
    <3> HIDE DEF row
    <3>. QED BY <3>1, <3>3, <3>4
  <2>4. handling'[o].at = "idle"
    BY <1>0, <2>1, HandlingMoves
  <2>5. Coded'
    BY <1>0, <1>1, <2>3, <2>4 DEF Coded, catalog
  <2>6. CatalogOK' /\ ComOK'
    BY <1>0, <1>1, <2>3 DEF CatalogOK, ComOK, catalog
  <2>. QED BY <1>1, <2>5, <2>6, TypeParts, PTL DEF TypeInv
<1>3. CASE ~ CompleteOrder(o)
  <2>1. UNCHANGED orders
    BY <1>3, EntitlementFacts, LineFacts DEF Begin, RevokeEntitlement, RedeemEntitlement, Crash
  <2>2. /\ handling'[o].at # "idle" => orders[o].state = "in_progress" /\ attempts'[o] # 0
        /\ handling'[o].at = "claim" => orders[o].promo # None
    <3>1. CASE Begin(o)
      <4>1. /\ orders[o].promo = None => Step(o, "create", FALSE)
            /\ orders[o].promo # None => Step(o, "claim", FALSE)
            /\ orders[o].state = "in_progress"
        BY <3>1 DEF Begin
      <4>2. orders[o].promo = None => handling'[o].at = "create"
        BY <1>0, <4>1, HandlingMoves
      <4>3. attempts'[o] # 0
        <5>1. attempts[o] \in Nat /\ attempts'[o] = attempts[o] + 1
          BY <1>0, <3>1, PromoAssumption DEF Begin, ComOK
        <5>. QED BY <5>1
      <4>. QED BY <4>1, <4>2, <4>3
    <3>2. CASE ClaimEntitlement(o) \/ CreateLine(o)
      <4>1. UNCHANGED attempts
        BY <3>2, EntitlementFacts, LineFacts
      <4>. QED BY <1>0, <3>2, <4>1, EntitlementFacts, LineFacts DEF Coded
    <3>3. CASE RevokeEntitlement(o) \/ Crash(o)
      <4>1. Step(o, "idle", FALSE)
        BY <3>3 DEF RevokeEntitlement, Crash
      <4>. QED BY <1>0, <4>1, HandlingMoves
    <3>4. CASE RedeemEntitlement(o)
      <4>1. Step(o, "commit", TRUE) /\ handling[o].at = "redeem" /\ UNCHANGED attempts
        BY <3>4 DEF RedeemEntitlement, Handles
      <4>2. handling'[o].at = "commit"
        BY <1>0, <4>1, HandlingMoves
      <4>. QED BY <1>0, <4>1, <4>2 DEF Coded
    <3>. QED BY <1>3, <3>1, <3>2, <3>3, <3>4
  <2>3. Coded'
    BY <1>0, <1>1, <2>1, <2>2 DEF Coded, catalog
  <2>4. CatalogOK' /\ ComOK'
    BY <1>0, <1>1, <2>1 DEF CatalogOK, ComOK, catalog
  <2>. QED BY <1>1, <2>3, <2>4, TypeParts, PTL DEF TypeInv
<1>. QED BY <1>2, <1>3

(* A discount has a promotion and a code, and at most the customer's own offer. *)
LEMMA DiscountFacts ==
  ASSUME TypeInv, NEW c \in Customer, NEW d \in Discounts(c)
  PROVE  /\ d.promo \in Promo \union {None} /\ d.code \in Code \union {None}
         /\ d.promo # None => d.code \in Code
         /\ d.offer \in Paired \union {None}
<1>1. ASSUME NEW p \in Promo, NEW k \in Code, d = Stamp(p, k, <<c, p>>)
      PROVE  /\ d.promo \in Promo \union {None} /\ d.code \in Code \union {None}
             /\ d.promo # None => d.code \in Code
             /\ d.offer \in Paired \union {None}
  BY <1>1 DEF Stamp, Paired
<1>2. CASE d = NoDiscount
  BY <1>2 DEF NoDiscount
<1>3. CASE d \in Eligible(c, Consumed(c)) \/ d \in Eligible(c, {})
  <2>1. PICK p \in Promo : promotions[p].state = "active" /\ d = Stamp(p, promotions[p].code, <<c, p>>)
    BY <1>3 DEF Eligible
  <2>2. promotions[p].code \in Code
    BY <2>1 DEF TypeInv, Coded
  <2>. QED BY <1>1, <2>1, <2>2
<1>4. CASE \E k \in Code : d \in Validated(c, k)
  <2>1. PICK k \in Code, p \in Promo : d = Stamp(p, k, <<c, p>>)
    BY <1>4 DEF Validated
  <2>. QED BY <1>1, <2>1
<1>. QED BY <1>2, <1>3, <1>4 DEF Discounts

LEMMA OrderFacts ==
  ASSUME TypeInv, NEW o \in Order,
         (\E c \in Customer : CreateOrder(o, c)) \/ SubmitOrder(o) \/ CloseOrder(o)
  PROVE  /\ UNCHANGED <<loyalty, catalog, lines, handling, attempts, bounds>>
         /\ orders' \in [Order -> OrderRow]
         /\ \A p \in Order \ {o} : orders'[p] = orders[p]
         /\ \/ /\ orders[o].state = "none" /\ orders'[o].state = "acknowledged"
               /\ orders'[o].promo # None => orders'[o].code \in Code
               /\ orders'[o].offer \in Paired \union {None}
            \/ /\ orders[o].state \in {"acknowledged", "in_progress"}
               /\ orders'[o].state \in {"in_progress", "closed"}
               /\ orders[o].state = "in_progress" => orders'[o].state = "closed" /\ attempts[o] = 0
               /\ orders'[o].promo = orders[o].promo /\ orders'[o].code = orders[o].code
               /\ orders'[o].offer = orders[o].offer
<1>1. orders \in [Order -> OrderRow] /\ orders[o] \in OrderRow
  BY TypeParts DEF TypeInv, ComOK
<1>2. UNCHANGED <<loyalty, catalog, lines, handling, attempts, bounds>>
  BY DEF CreateOrder, SubmitOrder, CloseOrder
<1>3. ASSUME NEW c \in Customer, CreateOrder(o, c)
      PROVE  /\ orders' \in [Order -> OrderRow]
             /\ \A p \in Order \ {o} : orders'[p] = orders[p]
             /\ orders[o].state = "none" /\ orders'[o].state = "acknowledged"
             /\ orders'[o].promo # None => orders'[o].code \in Code
             /\ orders'[o].offer \in Paired \union {None}
  <2>1. PICK d \in Discounts(c) :
           orders' = [orders EXCEPT ![o] = [state |-> "acknowledged", customer |-> c, promo |-> d.promo,
                                            code |-> d.code, offer |-> d.offer]]
    BY <1>3 DEF CreateOrder
  <2> DEFINE row == [state |-> "acknowledged", customer |-> c, promo |-> d.promo,
                     code |-> d.code, offer |-> d.offer]
  <2>2. /\ row \in OrderRow /\ row.state = "acknowledged"
        /\ row.promo # None => row.code \in Code
        /\ row.offer \in Paired \union {None}
    BY DiscountFacts, OffersApart DEF OrderRow
  <2> HIDE DEF row
  <2>3. orders' = [orders EXCEPT ![o] = row]
    BY <2>1 DEF row
  <2>. QED BY <1>1, <1>3, <2>2, <2>3 DEF CreateOrder
<1>4. CASE SubmitOrder(o) \/ CloseOrder(o)
  <2>1. PICK st \in {"in_progress", "closed"} :
           /\ orders' = [orders EXCEPT ![o].state = st]
           /\ orders[o].state \in {"acknowledged", "in_progress"}
           /\ orders[o].state = "in_progress" => st = "closed" /\ attempts[o] = 0
    BY <1>4 DEF SubmitOrder, CloseOrder
  <2> DEFINE row == [orders[o] EXCEPT !.state = st]
  <2>2. /\ row \in OrderRow /\ row.state = st
        /\ row.promo = orders[o].promo /\ row.code = orders[o].code /\ row.offer = orders[o].offer
    BY <1>1 DEF OrderRow
  <2>3. orders' = [orders EXCEPT ![o] = row]
    BY <1>1, <2>1
  <2> HIDE DEF row
  <2>. QED BY <1>1, <1>2, <2>1, <2>2, <2>3
<1>. QED BY <1>2, <1>3, <1>4

LEMMA TypeNext == TypeInv /\ [Next]_vars => TypeInv'
<1> SUFFICES ASSUME TypeInv, [Next]_vars PROVE TypeInv'
  OBVIOUS
<1>0. TypeOK /\ Coded /\ LoyaltyTypeOK /\ CatalogOK /\ ComOK /\ BoundsOK
  BY TypeParts DEF TypeInv
<1>1. CASE UNCHANGED vars
  <2>1. LoyaltyTypeOK' /\ CatalogOK' /\ ComOK' /\ BoundsOK'
    BY <1>0, <1>1 DEF vars, catalog, com, bounds, LoyaltyTypeOK, CatalogOK, ComOK, BoundsOK
  <2>2. Coded'
    BY <1>0, <1>1 DEF vars, catalog, com, Coded
  <2>. QED BY <2>1, <2>2, TypeParts, PTL DEF TypeInv
<1>2. CASE UNCHANGED <<com, bounds>> /\ LoyaltyTypeOK' /\ CatalogOK' /\ Coded'
  <2>1. ComOK' /\ BoundsOK'
    BY <1>0, <1>2 DEF com, bounds, ComOK, BoundsOK
  <2>. QED BY <1>2, <2>1, TypeParts, PTL DEF TypeInv
<1>3. CASE UNCHANGED com /\ LoyaltyTypeOK' /\ CatalogOK' /\ Coded' /\ BoundsOK'
  <2>1. ComOK'
    BY <1>0, <1>3 DEF com, ComOK
  <2>. QED BY <1>3, <2>1, TypeParts, PTL DEF TypeInv
<1>4. ASSUME NEW o \in Order,
             (\E c \in Customer : CreateOrder(o, c)) \/ SubmitOrder(o) \/ CloseOrder(o)
      PROVE  TypeInv'
  <2>1. /\ UNCHANGED <<loyalty, catalog, lines, handling, attempts, bounds>>
        /\ orders' \in [Order -> OrderRow]
    BY <1>4, OrderFacts
  <2>2. LoyaltyTypeOK' /\ CatalogOK' /\ BoundsOK' /\ ComOK'
    BY <1>0, <2>1 DEF LoyaltyTypeOK, catalog, CatalogOK, bounds, BoundsOK, ComOK
  <2>3. handling[o].at = "idle"
    <3>1. orders[o].state = "in_progress" => attempts[o] = 0 /\ orders'[o].state = "closed"
      BY <1>4, OrderFacts
    <3>. QED BY <1>0, <1>4 DEF CreateOrder, SubmitOrder, CloseOrder, Coded
  <2>4. Coded'
    <3>1. \A p \in Order \ {o} : orders'[p] = orders[p]
      BY <1>4, OrderFacts
    <3>2. orders'[o].promo # None => orders'[o].code \in Code
      BY <1>0, <1>4, OrderFacts DEF Coded
    <3>. QED BY <1>0, <2>1, <2>3, <3>1, <3>2 DEF Coded, catalog
  <2>. QED BY <2>2, <2>4, TypeParts, PTL DEF TypeInv
<1>5. CASE Next
  BY <1>2, <1>3, <1>4, <1>5, NextCases, CreationType, ExhaustType, AssignmentType, HandlerType
<1>. QED BY <1>1, <1>5

(* Types: the rows of catalog and com, what loyalty keeps and where each request and each *)
(* handler is; the attempts stay within the event's budget (handle_service_order_completed *)
(* is given the event again Attempts times in all).                                        *)
THEOREM TypeCorrect == Spec => []TypeOK
<1>1. TypeInv => TypeOK
  BY DEF TypeInv
<1>. QED BY <1>1, TypeInit, TypeNext, PTL DEF Spec

-----------------------------------------------------------------------------
(* OfferBuysOneLine. *)

LEMMA CreationKeeps ==
  ASSUME TypeInv, NEW q \in Request,
         \/ \E p \in Promo, k \in Code, a \in {"public", "targeted"}, kind \in Kind :
               CreatePromotion(q, p, k, a, kind)
         \/ RegisterOfferDefinition(q) \/ RegisterPromoCode(q) \/ ConfirmLink(q)
  PROVE  loyalty'.offers = loyalty.offers /\ loyalty'.claims = loyalty.claims
<1>1. CASE RegisterOfferDefinition(q) \/ RegisterPromoCode(q)
  <2>1. /\ requests[q].promo \in Promo /\ requests[q].code \in Code /\ requests[q].kind \in Kind
        /\ LoyaltyTypeOK
    BY <1>1, RequestFacts, TypeParts
       DEF TypeInv, RegisterOfferDefinition, RegisterPromoCode, At, Creating
  <2>2. loyalty' \in {loyalty, RegisterDefinition(requests[q].promo),
                      RegisterCode(requests[q].promo, requests[q].code, requests[q].kind)}
    BY <1>1 DEF RegisterOfferDefinition, RegisterPromoCode, Asked
  <2>. QED BY <2>1, <2>2, DefinitionFacts, CodeFacts
<1>. QED BY <1>1 DEF CreatePromotion, ConfirmLink

(* The order's own claim, or one step of the offers that are claimed already. *)
OffersMove ==
    /\ loyalty'.claims = loyalty.claims
    /\ \A f \in Offer :
          \/ loyalty'.offers[f] = loyalty.offers[f]
          \/ /\ OfferOf(f).state \in {"none", "issued"}
             /\ loyalty'.offers[f].state \in {"issued", "expired"}
          \/ /\ Live(f) /\ loyalty'.offers[f].state \in {"redeemed", "revoked"}
             /\ loyalty'.offers[f].order = OfferOf(f).order

LEMMA AgeIsMove == OffersAge => OffersMove
  BY DEF OffersAge, OffersMove

LEMMA HandlerOffers ==
  ASSUME TypeInv, NEW o \in Order,
         RevokeEntitlement(o) \/ RedeemEntitlement(o) \/ CompleteOrder(o) \/ Crash(o) \/ Begin(o)
  PROVE  /\ OffersMove
         /\ \A f \in Offer \ {OfferFor(o)} : loyalty'.offers[f] = loyalty.offers[f]
         /\ RevokeEntitlement(o) /\ ~ lost' =>
               /\ OfferOf(OfferFor(o)).state = "claimed" => loyalty'.offers[OfferFor(o)].state = "revoked"
               /\ OfferOf(OfferFor(o)).state \notin {"claimed", "redeemed"} =>
                     loyalty'.offers[OfferFor(o)] = loyalty.offers[OfferFor(o)]
         /\ ~ RedeemEntitlement(o) => OffersAge
         /\ RedeemEntitlement(o) \/ RevokeEntitlement(o) \/ loyalty' = loyalty
<1> DEFINE f == OfferFor(o)
<1>0. LoyaltyTypeOK /\ f \in Offer
  BY TypeParts, HandlerFacts DEF TypeInv
<1>1. CASE loyalty' = loyalty /\ ~ (RevokeEntitlement(o) /\ ~ lost')
  BY <1>1 DEF OffersMove, OffersAge
<1>2. CASE RevokeEntitlement(o) /\ loyalty' = Revoke(f)
  <2>1. /\ loyalty'.claims = loyalty.claims
        /\ \A g \in Offer \ {f} : loyalty'.offers[g] = loyalty.offers[g]
        /\ loyalty'.offers[f].order = OfferOf(f).order
        /\ OfferOf(f).state \in Revocable => loyalty'.offers[f].state = "revoked"
    <3> HIDE DEF f
    <3>. QED BY <1>0, <1>2, MovesFacts DEF Revoke
  <2>2. OfferOf(f).state \notin Revocable => loyalty' = loyalty
    BY <1>2 DEF Revoke, Moves
  <2>3. ~ RedeemEntitlement(o)
    BY <1>2 DEF RevokeEntitlement, RedeemEntitlement, Handles
  <2> HIDE DEF f
  <2>4. OffersAge
    BY <2>1, <2>2, LoyaltyAssumption DEF OffersAge, OfferOf, Live
  <2>5. /\ OfferOf(f).state = "claimed" => loyalty'.offers[f].state = "revoked"
        /\ OfferOf(f).state \notin {"claimed", "redeemed"} => loyalty'.offers[f] = loyalty.offers[f]
    BY <2>1, <2>2, LoyaltyAssumption
  <2>. QED BY <1>2, <2>1, <2>3, <2>4, <2>5, AgeIsMove DEF f
<1>3. CASE RedeemEntitlement(o) /\ loyalty' = Redeem(f)
  <2>1. /\ loyalty'.claims = loyalty.claims
        /\ \A g \in Offer \ {f} : loyalty'.offers[g] = loyalty.offers[g]
        /\ loyalty'.offers[f].order = OfferOf(f).order
        /\ OfferOf(f).state = "claimed" => loyalty'.offers[f].state = "redeemed"
    <3> HIDE DEF f
    <3>. QED BY <1>0, <1>3, MovesFacts DEF Redeem
  <2>2. OfferOf(f).state # "claimed" => loyalty' = loyalty
    BY <1>3 DEF Redeem, Moves
  <2>3. ~ RevokeEntitlement(o)
    BY <1>3 DEF RevokeEntitlement, RedeemEntitlement, Handles
  <2> HIDE DEF f
  <2>4. OffersMove
    BY <2>1, <2>2 DEF OffersMove, OfferOf, Live
  <2>. QED BY <1>3, <2>1, <2>3, <2>4 DEF f
<1>4. \/ loyalty' = loyalty /\ ~ (RevokeEntitlement(o) /\ ~ lost')
      \/ RevokeEntitlement(o) /\ loyalty' = Revoke(f)
      \/ RedeemEntitlement(o) /\ loyalty' = Redeem(f)
  BY DEF RevokeEntitlement, RedeemEntitlement, CompleteOrder, Crash, Begin, Handles, Lose
<1>. QED BY <1>1, <1>2, <1>3, <1>4

(* What was claimed stays claimed, by whom and for what. *)
LEMMA ClaimsKept ==
  ASSUME TypeInv, ClaimsMatch, OffersMove,
         \A o \in Order : loyalty.claims[o] # None =>
             OfferFor(o)' = OfferFor(o) /\ orders'[o].promo # None /\ orders'[o].state # "none",
         \A o \in Order : orders'[o].offer \in Paired \union {None, <<"minted", o>>}
  PROVE  ClaimsMatch'
<1>1. \A o \in Order : loyalty.claims[o] \in Offer \union {None}
  BY LoyaltyParts DEF TypeInv, TypeOK
<1>2. ASSUME NEW f \in Offer, loyalty'.offers[f].state \in {"claimed", "redeemed", "revoked"}
      PROVE  loyalty'.offers[f].order \in Order /\ loyalty'.claims[loyalty'.offers[f].order] = f
  BY <1>2 DEF OffersMove, ClaimsMatch, OfferOf, Live
<1>3. ASSUME NEW o \in Order, loyalty'.claims[o] # None
      PROVE  /\ loyalty'.offers[loyalty'.claims[o]].order = o
             /\ loyalty'.offers[loyalty'.claims[o]].state \in {"claimed", "redeemed", "revoked"}
             /\ loyalty'.claims[o] = OfferFor(o)'
             /\ orders'[o].promo # None /\ orders'[o].state # "none"
  BY <1>1, <1>3 DEF OffersMove, ClaimsMatch, OfferOf, Live
<1>. QED BY <1>2, <1>3 DEF ClaimsMatch, OfferOf

(* Nobody else can have claimed what an order claims for the first time. *)
LEMMA ClaimsGrow ==
  ASSUME TypeInv, ClaimsMatch, NEW o \in Order, NewClaim(o), UNCHANGED orders,
         orders[o].promo # None, orders[o].state # "none"
  PROVE  ClaimsMatch'
<1> DEFINE f == OfferFor(o)
<1>0. /\ \A p \in Order : loyalty.claims[p] \in Offer \union {None}
      /\ f \in Offer /\ f # None /\ loyalty.claims[o] = None
  BY LoyaltyParts, HandlerFacts, OffersApart DEF TypeInv, TypeOK, NewClaim
<1>1. \A p \in Order : OfferFor(p)' = OfferFor(p)
  BY DEF OfferFor
<1>2. \A p \in Order : loyalty.claims[p] # f
  <2>1. CASE f \in Paired
    BY <2>1, <1>0 DEF NewClaim, ClaimsMatch
  <2>2. CASE f \notin Paired
    <3>1. f = <<"minted", o>>
      BY <2>2 DEF OfferFor, ClaimsMatch
    <3>2. ASSUME NEW p \in Order, loyalty.claims[p] = f PROVE p = o
      <4>1. f = OfferFor(p)
        BY <1>0, <3>2 DEF ClaimsMatch
      <4>2. f = <<"minted", p>>
        BY <2>2, <4>1, <1>0 DEF OfferFor, ClaimsMatch
      <4>. QED BY <3>1, <4>2, OffersApart
    <3>. QED BY <1>0, <3>2
  <2>. QED BY <2>1, <2>2
<1>3. \A g \in Offer : OfferOf(g).order = o => OfferOf(g).state \notin {"claimed", "redeemed", "revoked"}
  BY <1>0, OffersApart DEF ClaimsMatch
<1>4. ASSUME NEW g \in Offer, loyalty'.offers[g].state \in {"claimed", "redeemed", "revoked"}
      PROVE  loyalty'.offers[g].order \in Order /\ loyalty'.claims[loyalty'.offers[g].order] = g
  <2>1. CASE g = f
    BY <2>1 DEF NewClaim
  <2>2. CASE g # f
    <3>1. loyalty'.offers[g] = loyalty.offers[g]
      BY <2>2 DEF NewClaim
    <3>2. OfferOf(g).order \in Order /\ loyalty.claims[OfferOf(g).order] = g /\ OfferOf(g).order # o
      BY <1>3, <1>4, <3>1 DEF ClaimsMatch, OfferOf
    <3>. QED BY <3>1, <3>2 DEF NewClaim, OfferOf
  <2>. QED BY <2>1, <2>2
<1>5. ASSUME NEW p \in Order, loyalty'.claims[p] # None
      PROVE  /\ loyalty'.offers[loyalty'.claims[p]].order = p
             /\ loyalty'.offers[loyalty'.claims[p]].state \in {"claimed", "redeemed", "revoked"}
             /\ loyalty'.claims[p] = OfferFor(p)'
             /\ orders'[p].promo # None /\ orders'[p].state # "none"
  <2>1. CASE p = o
    BY <1>1, <2>1 DEF NewClaim
  <2>2. CASE p # o
    <3>1. loyalty'.claims[p] = loyalty.claims[p] /\ loyalty.claims[p] \in Offer \ {f}
      BY <1>0, <1>2, <1>5, <2>2 DEF NewClaim
    <3>2. loyalty'.offers[loyalty.claims[p]] = loyalty.offers[loyalty.claims[p]]
      BY <3>1 DEF NewClaim
    <3>. QED BY <1>1, <1>5, <3>1, <3>2 DEF ClaimsMatch, OfferOf
  <2>. QED BY <2>1, <2>2
<1>. QED BY <1>4, <1>5 DEF ClaimsMatch, OfferOf

LEMMA SaleInit == Init => SaleInv
<1> SUFFICES ASSUME Init PROVE SaleInv
  OBVIOUS
<1>1. loyalty.offers = [f \in Offer |-> NoOffer] /\ loyalty.claims = [o \in Order |-> None]
  BY DEF Init, LoyaltyInit
<1>2. ClaimsMatch
  BY <1>1 DEF Init, ClaimsMatch, OfferOf, NoOffer, NoOrder
<1>3. DiscountsClaimed
  BY DEF Init, DiscountsClaimed
<1>. QED BY <1>2, <1>3 DEF SaleInv

(* Catalog's steps, and com's before the activation. *)
LEMMA SaleKept ==
  ASSUME TypeInv, SaleInv, OffersAge, UNCHANGED <<lines, handling>>,
         \A o \in Order : loyalty.claims[o] # None =>
             OfferFor(o)' = OfferFor(o) /\ orders'[o].promo # None /\ orders'[o].state # "none",
         \A o \in Order : orders'[o].offer \in Paired \union {None, <<"minted", o>>}
  PROVE  SaleInv'
<1>1. ClaimsMatch'
  BY AgeIsMove, ClaimsKept DEF SaleInv
<1>2. DiscountsClaimed'
  BY DEF SaleInv, DiscountsClaimed, OffersAge
<1>. QED BY <1>1, <1>2 DEF SaleInv

LEMMA SaleHandler ==
  ASSUME TypeInv, SaleInv, NEW o \in Order,
         \/ Begin(o) \/ ClaimEntitlement(o) \/ CreateLine(o)
         \/ RevokeEntitlement(o) \/ RedeemEntitlement(o) \/ CompleteOrder(o) \/ Crash(o)
  PROVE  SaleInv'
<1>0. TypeOK /\ ClaimsMatch /\ DiscountsClaimed
  BY DEF TypeInv, SaleInv
<1>1. CASE ClaimEntitlement(o)
  <2>1. /\ UNCHANGED <<orders, lines>> /\ handling[o].at = "claim" /\ handling'[o].at = "create"
        /\ \A p \in Order \ {o} : handling'[p] = handling[p]
        /\ handling'[o].promised => loyalty'.claims[o] # None
        /\ loyalty' = loyalty \/ NewClaim(o)
    BY <1>1, EntitlementFacts
  <2>2. orders[o].promo # None /\ orders[o].state # "none"
    BY <2>1 DEF TypeInv, Coded
  <2>3. ClaimsMatch'
    <3>1. CASE loyalty' = loyalty
      BY <1>0, <2>1, <3>1 DEF ClaimsMatch, OfferOf, OfferFor
    <3>2. CASE NewClaim(o)
      BY <1>0, <2>1, <2>2, <3>2, ClaimsGrow
    <3>. QED BY <2>1, <3>1, <3>2
  <2>4. \A p \in Order : loyalty.claims[p] # None => loyalty'.claims[p] # None
    BY <2>1 DEF NewClaim
  <2>5. DiscountsClaimed'
    BY <1>0, <2>1, <2>4 DEF DiscountsClaimed
  <2>. QED BY <2>3, <2>5 DEF SaleInv
<1>2. CASE CreateLine(o)
  <2>1. /\ UNCHANGED <<loyalty, orders>>
        /\ \A p \in Order \ {o} : handling'[p] = handling[p] /\ lines'[p] = lines[p]
        /\ handling'[o].promised = handling[o].promised
        /\ handling'[o].at \in {"revoke", "redeem"} => handling[o].promised
        /\ lines'[o] = "discounted" => lines[o] = "discounted" \/ handling[o].promised
    BY <1>2, LineFacts
  <2>2. ClaimsMatch'
    BY <1>0, <2>1 DEF ClaimsMatch, OfferOf, OfferFor
  <2>3. DiscountsClaimed'
    BY <1>0, <2>1 DEF DiscountsClaimed
  <2>. QED BY <2>2, <2>3 DEF SaleInv
<1>3. CASE Begin(o) \/ RevokeEntitlement(o) \/ RedeemEntitlement(o) \/ CompleteOrder(o) \/ Crash(o)
  <2>1. OffersMove /\ UNCHANGED lines /\ \A p \in Order \ {o} : handling'[p] = handling[p]
    BY <1>3, HandlerOffers, HandlerMoves
  <2>2. /\ handling'[o].promised => handling[o].promised
        /\ handling'[o].at \notin {"revoke", "redeem"}
    <3>1. PICK at \in {"idle", "claim", "create", "commit"}, promised \in BOOLEAN :
             Step(o, at, promised) /\ (promised => RedeemEntitlement(o))
      BY <1>3 DEF Begin, RevokeEntitlement, RedeemEntitlement, CompleteOrder, Crash
    <3>2. handling'[o].at = at /\ handling'[o].promised = promised
      BY <1>0, <3>1, HandlingMoves
    <3>3. RedeemEntitlement(o) => handling[o].promised
      BY <1>0 DEF RedeemEntitlement, Handles, DiscountsClaimed
    <3>. QED BY <3>1, <3>2, <3>3
  <2>3. DiscountsClaimed'
    BY <1>0, <2>1, <2>2 DEF DiscountsClaimed, OffersMove
  <2>4. /\ \A p \in Order : loyalty.claims[p] # None =>
              OfferFor(p)' = OfferFor(p) /\ orders'[p].promo # None /\ orders'[p].state # "none"
        /\ \A p \in Order : orders'[p].offer \in Paired \union {None, <<"minted", p>>}
    <3>1. CASE CompleteOrder(o)
      <4> DEFINE offer == IF Promised(o) THEN OfferFor(o) ELSE orders[o].offer
      <4>1. orders' = [orders EXCEPT ![o].state = "completed", ![o].offer = offer]
        BY <3>1 DEF CompleteOrder, TypeInv, TypeOK
      <4>2. /\ orders'[o].state = "completed" /\ orders'[o].offer = offer /\ orders'[o].promo = orders[o].promo
            /\ \A p \in Order \ {o} : orders'[p] = orders[p]
        <5>1. orders \in [Order -> OrderRow]
          BY TypeParts DEF TypeInv, ComOK
        <5> HIDE DEF offer
        <5>. QED BY <4>1, <5>1 DEF OrderRow
      <4>3. offer \in Paired \union {None, <<"minted", o>>}
        BY <1>0 DEF OfferFor, ClaimsMatch
      <4>4. OfferFor(o)' = OfferFor(o)
        BY <4>2, OffersApart, HandlerFacts DEF OfferFor
      <4> HIDE DEF offer
      <4>. QED BY <1>0, <4>2, <4>3, <4>4 DEF ClaimsMatch, OfferFor
    <3>2. CASE UNCHANGED orders
      BY <1>0, <3>2 DEF OfferFor, ClaimsMatch
    <3>. QED BY <1>3, <3>1, <3>2 DEF Begin, RevokeEntitlement, RedeemEntitlement, Crash
  <2>5. ClaimsMatch'
    BY <1>0, <2>1, <2>4, ClaimsKept
  <2>. QED BY <2>3, <2>5 DEF SaleInv
<1>. QED BY <1>1, <1>2, <1>3

LEMMA SaleNext == TypeInv /\ SaleInv /\ [Next]_vars => SaleInv'
<1> SUFFICES ASSUME TypeInv, SaleInv, [Next]_vars PROVE SaleInv'
  OBVIOUS
<1>1. CASE OffersAge /\ UNCHANGED com
  <2>1. /\ \A o \in Order : loyalty.claims[o] # None =>
              OfferFor(o)' = OfferFor(o) /\ orders'[o].promo # None /\ orders'[o].state # "none"
        /\ \A o \in Order : orders'[o].offer \in Paired \union {None, <<"minted", o>>}
    BY <1>1 DEF com, SaleInv, ClaimsMatch, OfferFor
  <2>. QED BY <1>1, <2>1, SaleKept DEF com
<1>2. CASE UNCHANGED vars
  BY <1>1, <1>2 DEF vars, OffersAge
<1>3. CASE Next
  <2>1. ASSUME NEW q \in Request,
               \/ \E p \in Promo, k \in Code, a \in {"public", "targeted"}, kind \in Kind :
                     CreatePromotion(q, p, k, a, kind)
               \/ RegisterOfferDefinition(q) \/ RegisterPromoCode(q) \/ ConfirmLink(q)
        PROVE  SaleInv'
    <3>1. loyalty'.offers = loyalty.offers /\ loyalty'.claims = loyalty.claims
      BY <2>1, CreationKeeps
    <3>2. UNCHANGED com
      BY <2>1, CreationType
    <3>. QED BY <1>1, <3>1, <3>2 DEF OffersAge
  <2>2. ASSUME NEW p \in Promo, Exhaust(p) PROVE SaleInv'
    BY <1>1, <2>2 DEF Exhaust, OffersAge
  <2>3. ASSUME NEW q \in Request,
               \/ \E x \in Paired : AssignTargeted(q, x) \/ UnassignTargeted(q, x)
               \/ IssueOffer(q) \/ AddEligibility(q) \/ ExpireOffer(q) \/ RevokeOffer(q)
               \/ RemoveEligibility(q) \/ Stop(q)
        PROVE  SaleInv'
    BY <1>1, <2>3, AssignmentType
  <2>4. ASSUME NEW o \in Order,
               (\E c \in Customer : CreateOrder(o, c)) \/ SubmitOrder(o) \/ CloseOrder(o)
        PROVE  SaleInv'
    <3>1. OffersAge /\ UNCHANGED <<lines, handling>>
      BY <2>4, OrderFacts DEF OffersAge
    <3>2. \A p \in Order : loyalty.claims[p] # None =>
             OfferFor(p)' = OfferFor(p) /\ orders'[p].promo # None /\ orders'[p].state # "none"
      BY <2>4, OrderFacts DEF SaleInv, ClaimsMatch, OfferFor
    <3>3. \A p \in Order : orders'[p].offer \in Paired \union {None, <<"minted", p>>}
      BY <2>4, OrderFacts DEF SaleInv, ClaimsMatch
    <3>. QED BY <3>1, <3>2, <3>3, SaleKept
  <2>. QED BY <1>3, <2>1, <2>2, <2>3, <2>4, NextCases, SaleHandler
<1>. QED BY <1>2, <1>3

LEMMA SaleInvHolds == Spec => [](TypeInv /\ SaleInv)
<1>1. Init => TypeInv /\ SaleInv
  BY TypeInit, SaleInit
<1>2. TypeInv /\ SaleInv /\ [Next]_vars => (TypeInv /\ SaleInv)'
  BY TypeNext, SaleNext
<1>. QED BY <1>1, <1>2, PTL DEF Spec

(* One offer discounts one line, through replays, redeliveries, crashes and lost answers: a *)
(* discount is sold only on a claim, and an offer is claimed for one order (claim_entitlement *)
(* with the order's idempotency key, handle_service_order_completed).                       *)
THEOREM OneLinePerOffer == Spec => []OfferBuysOneLine
<1>1. TypeInv /\ SaleInv => OfferBuysOneLine
  <2> SUFFICES ASSUME TypeInv, SaleInv, NEW o \in Order, NEW p \in Order,
                      lines[o] = "discounted", lines[p] = "discounted",
                      orders[o].offer # None, orders[o].offer = orders[p].offer
               PROVE  o = p
    BY DEF OfferBuysOneLine
  <2>1. loyalty.claims[o] # None /\ loyalty.claims[p] # None
    BY DEF SaleInv, DiscountsClaimed
  <2>2. loyalty.claims[o] = loyalty.claims[p]
    BY <2>1 DEF SaleInv, ClaimsMatch, OfferFor
  <2>. QED BY <2>1, <2>2 DEF SaleInv, ClaimsMatch
<1>. QED BY <1>1, SaleInvHolds, PTL


-----------------------------------------------------------------------------
(* OnlyDeclinesBurn. *)

(* What was lost stays lost, and a decline is not forgotten. *)
LEMMA LostStays == TypeInv /\ [Next]_vars /\ ~ lost' => ~ lost
<1> SUFFICES ASSUME TypeInv, [Next]_vars, ~ lost' PROVE ~ lost
  OBVIOUS
<1>1. CASE UNCHANGED bounds
  BY <1>1 DEF bounds
<1>2. CASE UNCHANGED vars
  BY <1>1, <1>2 DEF vars
<1>3. ASSUME NEW q \in Request,
             \/ \E x \in Paired : AssignTargeted(q, x) \/ UnassignTargeted(q, x)
             \/ IssueOffer(q) \/ AddEligibility(q) \/ ExpireOffer(q) \/ RevokeOffer(q)
             \/ RemoveEligibility(q) \/ Stop(q)
      PROVE  ~ lost
  BY <1>1, <1>3 DEF AssignTargeted, UnassignTargeted, IssueOffer, AddEligibility, ExpireOffer,
                    RevokeOffer, RemoveEligibility, Stop, Lose
<1>4. CASE Next
  BY <1>1, <1>3, <1>4, NextCases, CreationType, ExhaustType, OrderFacts, EntitlementFacts, LineFacts, HandlerMoves
<1>. QED BY <1>2, <1>4

(* An offer that is taken, is taken by the claim of its order. *)
LEMMA TakenByClaim ==
  ASSUME TypeInv, SaleInv, NEW f \in Offer, OfferOf(f).state \in {"claimed", "redeemed", "revoked"}
  PROVE  LET o == OfferOf(f).order
         IN  o \in Order /\ loyalty.claims[o] = f /\ f = OfferFor(o) /\ f # None
<1>1. OfferOf(f).order \in Order /\ loyalty.claims[OfferOf(f).order] = f
  BY DEF SaleInv, ClaimsMatch, Live
<1>2. f # None
  BY OffersApart
<1>. QED BY <1>1, <1>2 DEF SaleInv, ClaimsMatch

LEMMA BurnInit == Init => BurnInv
<1> SUFFICES ASSUME Init PROVE NothingHangs /\ ClaimsInUse
  BY DEF BurnInv
<1>1. NothingHangs
  BY DEF Init, NothingHangs
<1>2. loyalty.offers = [f \in Offer |-> NoOffer]
  BY DEF Init, LoyaltyInit
<1>3. ClaimsInUse
  BY <1>2 DEF ClaimsInUse, OfferOf, Live, NoOffer
<1>. QED BY <1>1, <1>3

(* Steps that leave com alone take no offer. *)
LEMMA BurnKept ==
  ASSUME TypeInv, SaleInv, NothingHangs, ClaimsInUse, OffersAge, UNCHANGED <<lines, handling>>,
         declined \subseteq declined',
         \A o \in Order : orders'[o].state = orders[o].state \/ orders'[o].state = "closed"
                          \/ orders[o].state \in {"none", "acknowledged"}
  PROVE  NothingHangs' /\ ClaimsInUse'
<1>1. NothingHangs'
  <2>1. loyalty'.claims = loyalty.claims
    BY DEF OffersAge
  <2>2. ASSUME NEW o \in Order, handling[o].at = "idle",
               orders'[o].state \in {"none", "acknowledged", "in_progress"}
        PROVE  lines[o] = "none"
    BY <2>2 DEF NothingHangs
  <2>. QED BY <2>1, <2>2 DEF NothingHangs
<1>2. ClaimsInUse'
  <2> SUFFICES ASSUME NEW f \in Offer
               PROVE  /\ loyalty'.offers[f].state = "redeemed" => lines[loyalty'.offers[f].order] = "discounted"
                      /\ loyalty'.offers[f].state \in {"claimed", "redeemed", "revoked"} =>
                            \/ lines[loyalty'.offers[f].order] = "discounted"
                            \/ handling[loyalty'.offers[f].order].at # "idle"
                            \/ /\ loyalty'.offers[f].state = "revoked"
                               /\ loyalty'.offers[f].order \in declined'
    BY DEF ClaimsInUse, OfferOf, Live, Handles, Serves
  <2>1. CASE loyalty'.offers[f] = loyalty.offers[f]
    BY <2>1 DEF ClaimsInUse, OfferOf, Live, Handles, Serves
  <2>2. CASE loyalty'.offers[f].state \notin {"claimed", "redeemed", "revoked"}
    BY <2>2
  <2>3. CASE Live(f) /\ loyalty'.offers[f].state = "revoked" /\ loyalty'.offers[f].order = OfferOf(f).order
    BY <2>3 DEF ClaimsInUse, OfferOf, Live, Handles, Serves
  <2>. QED BY <2>1, <2>2, <2>3 DEF OffersAge
<1>. QED BY <1>1, <1>2

(* What an order claimed, and what became of it. *)
Taken(f) == OfferOf(f).state \in {"claimed", "redeemed", "revoked"}

LEMMA DeclinedGrows == TypeInv /\ [Next]_vars => declined \subseteq declined'
<1> SUFFICES ASSUME TypeInv, [Next]_vars PROVE declined \subseteq declined'
  OBVIOUS
<1>1. UNCHANGED vars => declined' = declined
  BY DEF vars, bounds
<1>2. ASSUME NEW q \in Request,
             \/ \E p \in Promo, k \in Code, a \in {"public", "targeted"}, kind \in Kind :
                   CreatePromotion(q, p, k, a, kind)
             \/ RegisterOfferDefinition(q) \/ RegisterPromoCode(q) \/ ConfirmLink(q)
             \/ \E x \in Paired : AssignTargeted(q, x) \/ UnassignTargeted(q, x)
             \/ IssueOffer(q) \/ AddEligibility(q) \/ ExpireOffer(q) \/ RevokeOffer(q)
             \/ RemoveEligibility(q) \/ Stop(q)
      PROVE  declined' = declined
  BY <1>2 DEF CreatePromotion, RegisterOfferDefinition, RegisterPromoCode, ConfirmLink, AssignTargeted,
              UnassignTargeted, IssueOffer, AddEligibility, ExpireOffer, RevokeOffer,
              RemoveEligibility, Stop, Lose, bounds
<1>3. ASSUME NEW o \in Order,
             \/ \E c \in Customer : CreateOrder(o, c)
             \/ SubmitOrder(o) \/ CloseOrder(o) \/ Begin(o) \/ ClaimEntitlement(o)
             \/ RevokeEntitlement(o) \/ RedeemEntitlement(o) \/ CompleteOrder(o) \/ Crash(o)
      PROVE  declined' = declined
  BY <1>3 DEF CreateOrder, SubmitOrder, CloseOrder, Begin, ClaimEntitlement, RevokeEntitlement,
              RedeemEntitlement, CompleteOrder, Crash, Lose, bounds
<1>4. ASSUME NEW p \in Promo, Exhaust(p) PROVE declined' = declined
  BY <1>4 DEF Exhaust, bounds
<1>. QED BY <1>1, <1>2, <1>3, <1>4, NextCases, LineFacts

(* A claim of the order o is in use, or was declined, after a step of its handler. *)
LEMMA BurnOne ==
  ASSUME TypeInv, SaleInv, SaleInv', TypeInv', NothingHangs, ClaimsInUse, NEW o \in Order,
         declined \subseteq declined',
         \A p \in Order \ {o} : handling'[p] = handling[p] /\ lines'[p] = lines[p],
         \A f \in Offer : \/ loyalty'.offers[f] = loyalty.offers[f]
                          \/ ~ Taken(f)'
                          \/ loyalty'.offers[f].order = o,
         \A f \in Offer : Taken(f)' /\ loyalty'.offers[f].order = o =>
             /\ loyalty'.offers[f].state = "redeemed" => lines'[o] = "discounted"
             /\ \/ lines'[o] = "discounted" \/ handling'[o].at # "idle"
                \/ loyalty'.offers[f].state = "revoked" /\ o \in declined'
  PROVE  ClaimsInUse'
<1> SUFFICES ASSUME NEW f \in Offer, Taken(f)'
             PROVE  LET p == loyalty'.offers[f].order
                    IN  /\ loyalty'.offers[f].state = "redeemed" => lines'[p] = "discounted"
                        /\ \/ lines'[p] = "discounted" \/ handling'[p].at # "idle"
                           \/ loyalty'.offers[f].state = "revoked" /\ p \in declined'
  BY DEF ClaimsInUse, OfferOf, Live, Handles, Serves, Taken
<1>1. CASE loyalty'.offers[f].order = o
  BY <1>1
<1>2. CASE loyalty'.offers[f].order # o
  <2>1. loyalty'.offers[f] = loyalty.offers[f]
    BY <1>2
  <2>2. OfferOf(f).order \in Order
    BY <2>1, TakenByClaim DEF OfferOf, Taken
  <2>. QED BY <1>2, <2>1, <2>2 DEF ClaimsInUse, OfferOf, Live, Handles, Serves, Taken
<1>. QED BY <1>1, <1>2

LEMMA BurnClaim ==
  ASSUME TypeInv, SaleInv, TypeInv', SaleInv', NothingHangs, ClaimsInUse, ~ lost', NEW o \in Order,
         declined \subseteq declined', ClaimEntitlement(o)
  PROVE  NothingHangs' /\ ClaimsInUse'
<1>1. /\ UNCHANGED <<orders, lines>> /\ handling[o].at = "claim" /\ handling'[o].at = "create"
      /\ \A p \in Order \ {o} : handling'[p] = handling[p]
      /\ ~ handling'[o].promised => loyalty'.claims[o] = None
      /\ loyalty' = loyalty \/ NewClaim(o)
  BY EntitlementFacts
<1>2. \A p \in Order \ {o} : loyalty'.claims[p] = loyalty.claims[p]
  BY <1>1 DEF NewClaim
<1>3. NothingHangs'
  BY <1>1, <1>2 DEF NothingHangs
<1>4. \A f \in Offer : \/ loyalty'.offers[f] = loyalty.offers[f]
                       \/ loyalty'.offers[f].state = "claimed" /\ loyalty'.offers[f].order = o
  BY <1>1 DEF NewClaim
<1>5. ASSUME NEW f \in Offer, loyalty'.offers[f].order = o, loyalty'.offers[f].state = "redeemed"
      PROVE  lines'[o] = "discounted"
  BY <1>1, <1>4, <1>5 DEF ClaimsInUse, OfferOf
<1>6. ClaimsInUse'
  BY <1>1, <1>4, <1>5, BurnOne
<1>. QED BY <1>3, <1>6

LEMMA BurnLine ==
  ASSUME TypeInv, SaleInv, TypeInv', SaleInv', NothingHangs, ClaimsInUse, ~ lost', NEW o \in Order,
         CreateLine(o)
  PROVE  NothingHangs' /\ ClaimsInUse'
<1>1. /\ UNCHANGED <<loyalty, orders>> /\ handling[o].at = "create" /\ lines[o] = "none"
      /\ \A p \in Order \ {o} : handling'[p] = handling[p] /\ lines'[p] = lines[p]
      /\ handling'[o].promised = handling[o].promised /\ declined \subseteq declined'
      /\ \/ /\ lines'[o] = "none" /\ o \in declined'
            /\ handling'[o].at = IF handling[o].promised THEN "revoke" ELSE "idle"
         \/ /\ lines'[o] = IF handling[o].promised THEN "discounted" ELSE "full"
            /\ handling'[o].at = IF handling[o].promised THEN "redeem" ELSE "commit"
  BY LineFacts DEF NothingHangs
<1>2. handling[o].promised \in BOOLEAN
  BY HandlerFacts
<1>3. ~ handling[o].promised => loyalty.claims[o] = None
  BY <1>1 DEF NothingHangs
<1>4. NothingHangs'
  BY <1>1, <1>3 DEF NothingHangs
<1>5. ASSUME NEW f \in Offer, Taken(f), OfferOf(f).order = o
      PROVE  handling[o].promised /\ OfferOf(f).state # "redeemed"
  BY <1>1, <1>3, <1>5, TakenByClaim DEF ClaimsInUse, Taken
<1>6. ASSUME NEW f \in Offer, Taken(f)', loyalty'.offers[f].order = o
      PROVE  loyalty'.offers[f].state # "redeemed" /\ handling'[o].at # "idle"
  BY <1>1, <1>5, <1>6 DEF Taken, OfferOf
<1>7. ClaimsInUse'
  BY <1>1, <1>6, BurnOne
<1>. QED BY <1>4, <1>7

LEMMA BurnRest ==
  ASSUME TypeInv, SaleInv, TypeInv', SaleInv', NothingHangs, ClaimsInUse, ~ lost', NEW o \in Order,
         declined \subseteq declined',
         RevokeEntitlement(o) \/ RedeemEntitlement(o) \/ CompleteOrder(o) \/ Crash(o) \/ Begin(o)
  PROVE  NothingHangs' /\ ClaimsInUse'
<1>1. /\ UNCHANGED lines /\ \A p \in Order \ {o} : handling'[p] = handling[p]
      /\ loyalty'.claims = loyalty.claims /\ OffersMove
      /\ \A f \in Offer \ {OfferFor(o)} : loyalty'.offers[f] = loyalty.offers[f]
  BY HandlerMoves, HandlerOffers
<1>2. ASSUME NEW f \in Offer, Taken(f)' PROVE Taken(f) /\ loyalty'.offers[f].order = OfferOf(f).order
  BY <1>1, <1>2 DEF OffersMove, Taken, Live, OfferOf
<1>3. ASSUME NEW at \in {"idle", "claim", "create", "commit"}, NEW promised \in BOOLEAN,
             Step(o, at, promised)
      PROVE  handling'[o].at = at /\ handling'[o].promised = promised
  BY <1>3, HandlingMoves DEF TypeInv
<1>4. \A f \in Offer : Taken(f)' => loyalty'.offers[f] = loyalty.offers[f] \/ loyalty'.offers[f].order = o
  <2>1. CASE loyalty' = loyalty
    BY <2>1
  <2>2. CASE RedeemEntitlement(o) \/ RevokeEntitlement(o)
    <3>1. loyalty.claims[o] # None
      BY <2>2 DEF RedeemEntitlement, RevokeEntitlement, Handles, SaleInv, DiscountsClaimed
    <3>2. loyalty.claims[o] = OfferFor(o) /\ OfferOf(OfferFor(o)).order = o
      BY <3>1 DEF SaleInv, ClaimsMatch
    <3>. QED BY <1>1, <1>2, <3>2
  <2>. QED BY <2>1, <2>2, HandlerOffers
<1>5. \A f \in Offer : \/ loyalty'.offers[f] = loyalty.offers[f]
                       \/ ~ Taken(f)'
                       \/ loyalty'.offers[f].order = o
  BY <1>4
<1>6. CASE RevokeEntitlement(o)
  <2>1. handling[o].at = "revoke" /\ UNCHANGED orders /\ Step(o, "idle", FALSE)
    BY <1>6 DEF RevokeEntitlement, Handles
  <2>2. lines[o] = "none" /\ handling'[o].at = "idle" /\ o \in declined'
    BY <1>3, <2>1 DEF NothingHangs
  <2>3. NothingHangs'
    BY <1>1, <2>1, <2>2 DEF NothingHangs
  <2>4. ASSUME NEW f \in Offer, Taken(f)', loyalty'.offers[f].order = o
        PROVE  loyalty'.offers[f].state = "revoked"
    <3>1. Taken(f) /\ OfferOf(f).order = o /\ f = OfferFor(o)
      BY <1>2, <2>4, TakenByClaim DEF Taken
    <3>2. OfferOf(f).state \in {"claimed", "revoked"}
      BY <2>2, <3>1 DEF ClaimsInUse, Taken
    <3>. QED BY <1>6, <2>4, <3>1, <3>2, HandlerOffers DEF Taken, OfferOf
  <2>5. ClaimsInUse'
    BY <1>1, <1>5, <2>2, <2>4, BurnOne
  <2>. QED BY <2>3, <2>5
<1>7. CASE RedeemEntitlement(o)
  <2>1. handling[o].at = "redeem" /\ UNCHANGED orders /\ Step(o, "commit", TRUE)
    BY <1>7 DEF RedeemEntitlement, Handles
  <2>2. lines[o] = "discounted"
    BY <2>1 DEF NothingHangs, SaleInv, DiscountsClaimed
  <2>n. handling'[o].at = "commit" /\ handling'[o].promised
    BY <1>3, <2>1
  <2>3. NothingHangs'
    BY <1>1, <2>1, <2>2, <2>n DEF NothingHangs
  <2>4. ClaimsInUse'
    BY <1>1, <1>5, <2>2, BurnOne
  <2>. QED BY <2>3, <2>4
<1>8. CASE CompleteOrder(o)
  <2>1. handling[o].at = "commit" /\ Step(o, "idle", FALSE) /\ UNCHANGED loyalty
    BY <1>8 DEF CompleteOrder, Handles
  <2>2. orders'[o].state = "completed" /\ \A p \in Order \ {o} : orders'[p].state = orders[p].state
    <3>1. orders \in [Order -> OrderRow]
      BY TypeParts DEF TypeInv, ComOK
    <3>. QED BY <1>8, <3>1 DEF CompleteOrder, OrderRow
  <2>3. NothingHangs'
    BY <1>1, <1>3, <2>1, <2>2 DEF NothingHangs
  <2>4. ASSUME NEW f \in Offer, Taken(f)', loyalty'.offers[f].order = o PROVE lines[o] = "discounted"
    <3>1. loyalty.claims[o] = f /\ f # None
      BY <1>2, <2>4, TakenByClaim DEF Taken
    <3>. QED BY <2>1, <3>1 DEF NothingHangs
  <2>5. ClaimsInUse'
    BY <1>1, <1>5, <2>4, BurnOne
  <2>. QED BY <2>3, <2>5
<1>9. CASE Begin(o)
  <2>1. /\ handling[o].at = "idle" /\ orders[o].state = "in_progress" /\ UNCHANGED <<loyalty, orders>>
        /\ \/ Step(o, "create", FALSE) /\ orders[o].promo = None
           \/ Step(o, "claim", FALSE)
    BY <1>9 DEF Begin, Handles
  <2>2. lines[o] = "none"
    BY <2>1 DEF NothingHangs
  <2>3. /\ handling'[o].at \in {"create", "claim"}
        /\ handling'[o].at = "create" => loyalty.claims[o] = None
    BY <1>3, <2>1 DEF SaleInv, ClaimsMatch
  <2>4. NothingHangs'
    BY <1>1, <2>1, <2>2, <2>3 DEF NothingHangs
  <2>5. ASSUME NEW f \in Offer, Taken(f)', loyalty'.offers[f].order = o
        PROVE  loyalty'.offers[f].state # "redeemed"
    BY <2>1, <2>2, <2>5 DEF ClaimsInUse, OfferOf
  <2>6. ClaimsInUse'
    BY <1>1, <1>5, <2>3, <2>5, BurnOne
  <2>. QED BY <2>4, <2>6
<1>. QED BY <1>6, <1>7, <1>8, <1>9 DEF Crash, Lose

LEMMA BurnNext == TypeInv /\ SaleInv /\ BurnInv /\ [Next]_vars => BurnInv'
<1> SUFFICES ASSUME TypeInv, SaleInv, BurnInv, [Next]_vars, ~ lost' PROVE NothingHangs' /\ ClaimsInUse'
  BY DEF BurnInv
<1>1. NothingHangs /\ ClaimsInUse
  BY LostStays DEF BurnInv
<1>2. TypeInv' /\ SaleInv' /\ declined \subseteq declined'
  BY TypeNext, SaleNext, DeclinedGrows
<1>3. CASE OffersAge /\ UNCHANGED com
  BY <1>1, <1>2, <1>3, BurnKept DEF com
<1>4. CASE UNCHANGED vars
  BY <1>3, <1>4 DEF vars, OffersAge
<1>5. CASE Next
  <2>1. ASSUME NEW q \in Request,
               \/ \E p \in Promo, k \in Code, a \in {"public", "targeted"}, kind \in Kind :
                     CreatePromotion(q, p, k, a, kind)
               \/ RegisterOfferDefinition(q) \/ RegisterPromoCode(q) \/ ConfirmLink(q)
        PROVE  OffersAge /\ UNCHANGED com
    BY <2>1, CreationKeeps, CreationType DEF OffersAge
  <2>2. ASSUME NEW p \in Promo, Exhaust(p) PROVE OffersAge /\ UNCHANGED com
    BY <2>2 DEF Exhaust, OffersAge
  <2>3. ASSUME NEW o \in Order,
               (\E c \in Customer : CreateOrder(o, c)) \/ SubmitOrder(o) \/ CloseOrder(o)
        PROVE  NothingHangs' /\ ClaimsInUse'
    <3>1. /\ OffersAge /\ UNCHANGED <<lines, handling>>
          /\ \A p \in Order : \/ orders'[p].state = orders[p].state \/ orders'[p].state = "closed"
                              \/ orders[p].state \in {"none", "acknowledged"}
      BY <2>3, OrderFacts DEF OffersAge
    <3>. QED BY <1>1, <1>2, <3>1, BurnKept
  <2>. QED BY <1>1, <1>2, <1>3, <1>5, <2>1, <2>2, <2>3, NextCases, AssignmentType,
              BurnClaim, BurnLine, BurnRest
<1>. QED BY <1>4, <1>5

(* Without a lost call or a stopped process, what an order claimed is for a line sold at the *)
(* discount or an order that is being activated; only a payment decline burns a code, and    *)
(* then the claim is revoked, however often the event is given again (claim_entitlement,     *)
(* revoke_entitlement).                                                                      *)
THEOREM EntitlementsAreUsed == Spec => []OnlyDeclinesBurn
<1>1. Init => TypeInv /\ SaleInv /\ BurnInv
  BY TypeInit, SaleInit, BurnInit
<1>2. TypeInv /\ SaleInv /\ BurnInv /\ [Next]_vars => (TypeInv /\ SaleInv /\ BurnInv)'
  BY TypeNext, SaleNext, BurnNext
<1>3. BurnInv => OnlyDeclinesBurn
  BY DEF BurnInv, ClaimsInUse, OnlyDeclinesBurn, Live, Serves
<1>. QED BY <1>1, <1>2, <1>3, PTL DEF Spec

-----------------------------------------------------------------------------
(* ActiveIsLinked. *)

(* What loyalty was told stays told: every step but a creation's leaves definitions and codes. *)
LinksGrow ==
    /\ loyalty.defs \subseteq loyalty'.defs
    /\ \A p \in Promo : CodeRegistered(p) => CodeRegistered(p)'

Offered(p) == promotions[p].state \in {"active", "exhausted"}

LEMMA LinkKept ==
  ASSUME TypeInv, LinkInv, LinksGrow,
         \A q \in Request : requests'[q] = requests[q] \/ requests'[q].at \notin {"code", "confirm"},
         \A p \in Promo : promotions'[p].state \in {"active", "exhausted"} => Offered(p)
  PROVE  LinkInv'
<1>1. \A q \in Request : requests[q].at \in Creating => requests[q].promo \in Promo
  BY RequestFacts DEF TypeInv
<1>2. ASSUME NEW q \in Request, requests'[q].at \in {"code", "confirm"}
      PROVE  requests'[q].promo \in loyalty'.defs
  <2>1. requests'[q] = requests[q] /\ requests[q].promo \in loyalty.defs
    BY <1>2 DEF LinkInv, At
  <2>. QED BY <2>1 DEF LinksGrow
<1>3. ASSUME NEW q \in Request, requests'[q].at = "confirm"
      PROVE  CodeRegistered(requests[q].promo)' /\ requests'[q] = requests[q]
  <2>1. requests'[q] = requests[q] /\ requests[q].promo \in Promo /\ CodeRegistered(requests[q].promo)
    BY <1>1, <1>3 DEF LinkInv, At, Creating
  <2>. QED BY <2>1 DEF LinksGrow, CodeRegistered
<1>4. ActiveIsLinked'
  BY DEF LinkInv, ActiveIsLinked, LinksGrow, Offered
<1>. QED BY <1>2, <1>3, <1>4 DEF LinkInv, At, CodeRegistered

LEMMA LinkInit == Init => LinkInv
  BY DEF Init, LinkInv, ActiveIsLinked, At, Idle, NoPromotion

LEMMA LinkDefinition ==
  ASSUME TypeInv, LinkInv, NEW q \in Request, RegisterOfferDefinition(q)
  PROVE  LinkInv'
<1> DEFINE p == requests[q].promo
<1>1. p \in Promo /\ requests[q].at = "definition" /\ LoyaltyTypeOK
  BY RequestFacts, TypeParts DEF TypeInv, RegisterOfferDefinition, At, Creating
<1>2. loyalty'.defs = loyalty.defs \union {p} /\ loyalty'.codes = loyalty.codes
  BY <1>1, DefinitionFacts DEF RegisterOfferDefinition, Asked
<1>3. /\ requests'[q].at = "code" /\ requests'[q].promo = p
      /\ \A s \in Request \ {q} : requests'[s] = requests[s]
  BY <1>1, RequestGoes DEF TypeInv, RegisterOfferDefinition, Creating
<1>4. UNCHANGED promotions /\ \A r \in Promo : CodeRegistered(r)' <=> CodeRegistered(r)
  BY <1>2 DEF RegisterOfferDefinition, CodeRegistered
<1>5. ActiveIsLinked'
  BY <1>2, <1>4 DEF LinkInv, ActiveIsLinked
<1>6. \A s \in Request : requests'[s].at \in {"code", "confirm"} => requests'[s].promo \in loyalty'.defs
  BY <1>2, <1>3 DEF LinkInv, At
<1>7. ASSUME NEW s \in Request, requests'[s].at = "confirm"
      PROVE  \E k \in Code : loyalty'.codes[k].promo = requests'[s].promo
  BY <1>2, <1>3, <1>7 DEF LinkInv, At, CodeRegistered
<1>. QED BY <1>5, <1>6, <1>7 DEF LinkInv, At, CodeRegistered

LEMMA LinkCode ==
  ASSUME TypeInv, LinkInv, NEW q \in Request, RegisterPromoCode(q)
  PROVE  LinkInv'
<1> DEFINE p == requests[q].promo
           k == requests[q].code
<1>1. /\ p \in Promo /\ k \in Code /\ requests[q].kind \in Kind /\ requests[q].at = "code"
      /\ LoyaltyTypeOK /\ UNCHANGED promotions
  BY RequestFacts, TypeParts DEF TypeInv, RegisterPromoCode, At, Creating
<1>2. CASE CodeRefused(p, k)
  <2>1. Ends(q) /\ UNCHANGED loyalty
    BY <1>2 DEF RegisterPromoCode, Asked
  <2>2. \A s \in Request : requests'[s] = requests[s] \/ requests'[s].at \notin {"code", "confirm"}
    BY <2>1, RequestMoves DEF TypeInv, Ends, Idle
  <2>3. LinksGrow
    BY <2>1 DEF LinksGrow, CodeRegistered
  <2>. QED BY <1>1, <2>2, <2>3, LinkKept DEF Offered
<1>3. CASE ~ CodeRefused(p, k)
  <2>1. loyalty' = RegisterCode(p, k, requests[q].kind) /\ Goes(q, "confirm")
    BY <1>3 DEF RegisterPromoCode, Asked
  <2>2. /\ loyalty'.defs = loyalty.defs
        /\ CodeRegistered(p) => loyalty' = loyalty
        /\ ~ CodeRegistered(p) => /\ loyalty'.codes[k].promo = p
                                  /\ \A h \in Code \ {k} : loyalty'.codes[h] = loyalty.codes[h]
    <3> HIDE DEF p, k
    <3>. QED BY <1>1, <2>1, CodeFacts
  <2>3. \E h \in Code : loyalty'.codes[h].promo = p
    BY <1>1, <2>2 DEF CodeRegistered
  <2>4. ASSUME NEW r \in Promo, CodeRegistered(r)
        PROVE  \E h \in Code : loyalty'.codes[h].promo = r
    <3>1. PICK h \in Code : loyalty.codes[h].promo = r
      BY <2>4 DEF CodeRegistered
    <3>2. ~ CodeRegistered(p) => loyalty.codes[k].promo = None
      BY <1>3 DEF CodeRefused, NoBinding
    <3>3. r # None
      BY LoyaltyAssumption
    <3>. QED BY <2>2, <3>1, <3>2, <3>3 DEF CodeRegistered
  <2>5. /\ requests'[q].at = "confirm" /\ requests'[q].promo = p
        /\ \A s \in Request \ {q} : requests'[s] = requests[s]
    BY <1>1, <2>1, RequestGoes DEF TypeInv, Creating
  <2>6. \A s \in Request : requests[s].at \in Creating => requests[s].promo \in Promo
    BY RequestFacts DEF TypeInv
  <2>7. \A s \in Request : requests'[s].at \in {"code", "confirm"} => requests'[s].promo \in loyalty'.defs
    BY <1>1, <2>2, <2>5 DEF LinkInv, At
  <2>8. ASSUME NEW s \in Request, requests'[s].at = "confirm"
        PROVE  \E h \in Code : loyalty'.codes[h].promo = requests'[s].promo
    <3>1. CASE s = q
      BY <2>3, <2>5, <3>1
    <3>2. CASE s # q
      BY <2>4, <2>5, <2>6, <2>8, <3>2 DEF LinkInv, At, Creating
    <3>. QED BY <3>1, <3>2
  <2>9. ActiveIsLinked'
    BY <1>1, <2>2, <2>4 DEF LinkInv, ActiveIsLinked, CodeRegistered
  <2>. QED BY <2>7, <2>8, <2>9 DEF LinkInv, At, CodeRegistered
<1>. QED BY <1>2, <1>3

LEMMA LinkConfirm ==
  ASSUME TypeInv, LinkInv, NEW q \in Request, ConfirmLink(q)
  PROVE  LinkInv'
<1> DEFINE p == requests[q].promo
<1>1. requests[q].at = "confirm" /\ p \in Promo /\ p \in loyalty.defs /\ CodeRegistered(p)
  BY RequestFacts DEF TypeInv, ConfirmLink, At, Creating, LinkInv
<1>2. UNCHANGED loyalty /\ requests'[q] = Idle /\ \A s \in Request \ {q} : requests'[s] = requests[s]
  BY RequestMoves DEF TypeInv, ConfirmLink, Ends
<1>3. \A r \in Promo \ {p} : promotions'[r] = promotions[r]
  BY DEF TypeInv, TypeOK, ConfirmLink, Asked
<1>4. ActiveIsLinked'
  BY <1>1, <1>2, <1>3 DEF LinkInv, ActiveIsLinked, CodeRegistered
<1>5. \A s \in Request : requests'[s] = requests[s] \/ requests'[s].at \notin {"code", "confirm"}
  BY <1>2 DEF Idle
<1>6. \A s \in Request : requests'[s].at \in {"code", "confirm"} => requests'[s].promo \in loyalty'.defs
  BY <1>2, <1>5 DEF LinkInv, At
<1>7. \A s \in Request : requests'[s].at = "confirm" => \E k \in Code : loyalty'.codes[k].promo = requests'[s].promo
  BY <1>2, <1>5 DEF LinkInv, At, CodeRegistered
<1>. QED BY <1>4, <1>6, <1>7 DEF LinkInv, At, CodeRegistered

LEMMA LinkNext == TypeInv /\ LinkInv /\ [Next]_vars => LinkInv'
<1> SUFFICES ASSUME TypeInv, LinkInv, [Next]_vars PROVE LinkInv'
  OBVIOUS
<1>1. CASE /\ loyalty'.defs = loyalty.defs /\ loyalty'.codes = loyalty.codes /\ UNCHANGED promotions
           /\ \A q \in Request : requests'[q] = requests[q] \/ requests'[q].at \notin {"code", "confirm"}
  <2>1. LinksGrow
    BY <1>1 DEF LinksGrow, CodeRegistered
  <2>. QED BY <1>1, <2>1, LinkKept DEF Offered
<1>2. CASE UNCHANGED vars
  BY <1>1, <1>2 DEF vars, catalog
<1>3. CASE Next
  <2>1. ASSUME NEW q \in Request, NEW p \in Promo, NEW k \in Code, NEW a \in {"public", "targeted"},
               NEW kind \in Kind, CreatePromotion(q, p, k, a, kind)
        PROVE  LinkInv'
    <3>1. LinksGrow
      BY <2>1 DEF CreatePromotion, LinksGrow, CodeRegistered
    <3>2. \A s \in Request : requests'[s] = requests[s] \/ requests'[s].at \notin {"code", "confirm"}
      <4>1. requests' = [requests EXCEPT ![q] = [at |-> "definition", promo |-> p, code |-> k, kind |-> kind]]
        BY <2>1 DEF CreatePromotion
      <4>. QED BY <4>1 DEF TypeInv, TypeOK
    <3>3. \A r \in Promo : promotions'[r].state \in {"active", "exhausted"} => Offered(r)
      BY <2>1 DEF CreatePromotion, TypeInv, TypeOK, Offered
    <3>. QED BY <3>1, <3>2, <3>3, LinkKept
  <2>2. ASSUME NEW p \in Promo, Exhaust(p) PROVE LinkInv'
    <3>1. LinksGrow /\ UNCHANGED requests
      BY <2>2 DEF Exhaust, LinksGrow, CodeRegistered
    <3>2. \A r \in Promo : promotions'[r].state \in {"active", "exhausted"} => Offered(r)
      BY <2>2 DEF Exhaust, TypeInv, TypeOK, Offered
    <3>. QED BY <3>1, <3>2, LinkKept
  <2>3. ASSUME NEW q \in Request,
               \/ \E x \in Paired : AssignTargeted(q, x) \/ UnassignTargeted(q, x)
               \/ IssueOffer(q) \/ AddEligibility(q) \/ ExpireOffer(q) \/ RevokeOffer(q)
               \/ RemoveEligibility(q) \/ Stop(q)
        PROVE  LinkInv'
    BY <1>1, <2>3, AssignmentType DEF Creating
  <2>4. ASSUME NEW o \in Order,
               \/ (\E c \in Customer : CreateOrder(o, c)) \/ SubmitOrder(o) \/ CloseOrder(o)
               \/ Begin(o) \/ ClaimEntitlement(o) \/ CreateLine(o)
               \/ RevokeEntitlement(o) \/ RedeemEntitlement(o) \/ CompleteOrder(o) \/ Crash(o)
        PROVE  LinkInv'
    <3>1. loyalty'.defs = loyalty.defs /\ loyalty'.codes = loyalty.codes /\ UNCHANGED catalog
      BY <2>4, OrderFacts, EntitlementFacts, LineFacts, HandlerMoves
    <3>. QED BY <1>1, <3>1 DEF catalog
  <2>. QED BY <1>3, <2>1, <2>2, <2>3, <2>4, NextCases, LinkDefinition, LinkCode, LinkConfirm
<1>. QED BY <1>2, <1>3

(* However creations of a promotion overlap, stop half-way and are resumed, one that was  *)
(* put on sale is known to loyalty by its definition and by a code: each request passes a *)
(* call only when loyalty took it (create_promotion).                                     *)
THEOREM SaleIsLinked == Spec => []ActiveIsLinked
<1>1. Init => TypeInv /\ LinkInv
  BY TypeInit, LinkInit
<1>2. TypeInv /\ LinkInv /\ [Next]_vars => (TypeInv /\ LinkInv)'
  BY TypeNext, LinkNext
<1>3. LinkInv => ActiveIsLinked
  BY DEF LinkInv
<1>. QED BY <1>1, <1>2, <1>3, PTL DEF Spec
================================================================================
