----------------------------- MODULE SignupProofs -----------------------------
(***************************************************************************)
(* What the signup funnel and the number pool keep for any number of       *)
(* addresses, numbers, open orders, sessions, requests, customers, orders  *)
(* and faults, whatever the deployment hosts elsewhere.                    *)
(***************************************************************************)
EXTENDS Signup, TLAPS

(* The inductive invariants. *)

(* Only the copy that is about to be written may be of a session that failed, a link is *)
(* looked up when there is one, an order that is submitted or terminated was created, and *)
(* an order has a number.                                                                 *)
CopyFilled(copy) ==
    /\ copy.at \in Call \ {"write"} => copy.sig \in SignupSession
    /\ copy.at = "write" => copy.sig \in SignupSession \union {Failed}
    /\ copy.at = "close" => copy.sig.openOrder \in OpenOrder
    /\ copy.at = "lookup" => copy.linked \in Customer

Placed ==
    /\ \A r \in Request : requests[r].at = "submit" =>
          requests[r].sig.order \in Order /\ orders[requests[r].sig.order].state # "none"
    /\ \A r \in Request : requests[r].at \in {"release", "terminate"} =>
          orders[requests[r].order].state # "none"
Numbered == \A o \in Order : orders[o].state # "none" => orders[o].number \in Number

TypeInv == TypeOK /\ (\A r \in Request : CopyFilled(requests[r])) /\ Placed /\ Numbered

(* A hold is of the one number its open order has. *)
HoldInv ==
    \A n \in Number : Soft(n) =>
        LET oo == numbers[n].for
        IN  /\ oo \in OpenOrder /\ openOrders[oo].number = n
            /\ \/ openOrders[oo].status = "completed"
               \/ openOrders[oo].status = "open" /\ openOrders[oo].until = numbers[n].until
               \/ openOrders[oo].status = "cancelled" /\ oo \in crossed

(* A cancellation found no hold, and since then only a resume has made one. *)
CrossInv ==
    \A r \in Request : requests[r].at \in {"cancel", "cancelling"} =>
        LET oo == requests[r].openOrder
        IN  /\ openOrders[oo].status # "none"
            /\ requests[r].at = "cancelling" =>
                  \A n \in Number : Soft(n) /\ numbers[n].for = oo => oo \in crossed

(* A request submits the order it has just created, and no other request does; what is *)
(* terminated was completed; an order has nothing to give back before it is provisioned. *)
PlacedOnce ==
    /\ \A r \in Request : requests[r].at = "submit" =>
          /\ orders[requests[r].sig.order].state = "created"
          /\ \A q \in Request \ {r} :
                requests[q].at = "submit" => requests[q].sig.order # requests[r].sig.order
    /\ \A r \in Request : requests[r].at \in {"release", "terminate"} =>
          orders[requests[r].order].state \in {"completed", "terminated"}
    /\ \A o \in Order : orders[o].state \in {"none", "created", "submitted"} => o \notin given

(* Out of reach of every hold and of the next reservation. *)
Hard(n) == numbers[n].status \in {"reserved", "assigned"} /\ numbers[n].until = 0 /\ numbers[n].for = None

(* As HoldsNumber, with the order that a second termination found a line of. *)
Keeps(o) ==
    orders[o].state \in {"reserved", "charging", "retried", "completed", "terminated"} /\ o \notin given

NumberInv ==
    ~ astray =>
        /\ \A o \in Order : Keeps(o) => Hard(orders[o].number)
        /\ \A o, p \in Order : Keeps(o) /\ Keeps(p) /\ orders[o].number = orders[p].number => o = p

(* A session past the attestation, stored or copied, is of a customer who was attested, *)
(* and may be gone.                                                                     *)
Attested(c) == c \in Customer /\ (customers[c].verified \/ customers[c].status = "gone")
Passed(sig) ==
    /\ sig.step \in {"kyc", "handoff"} => sig.customer \in Customer
    /\ sig.step \in {"cof", "order", "activation"} => Attested(sig.customer)

CopyPassed(copy) ==
    /\ copy.at \in Call => Passed(copy.sig)
    /\ copy.at \in {"open", "lookup", "create", "bind"} => copy.sig.step = "customer"
    /\ copy.at = "bind" => copy.sig.customer \in Customer
    /\ copy.at = "attest" => copy.sig.step \in {"kyc", "handoff"}
    /\ copy.at = "card" => copy.sig.step = "cof"
    /\ copy.at \in {"order", "submit"} => copy.sig.step = "order"

KycInv ==
    /\ \A s \in Session : Passed(store[s])
    /\ \A r \in Request : CopyPassed(requests[r])
    /\ \A c \in Customer : customers[c].verified => customers[c].status = "active"
    /\ \A o \in Order : orders[o].state # "none" =>
          orders[o].customer \in Customer /\ customers[orders[o].customer].verified

-----------------------------------------------------------------------------
(* What the statements of the pool write. *)

NumberRow == [status : {"available", "reserved", "assigned"}, until : Time, for : OpenOrder \union {None}]
OpenRow == [status : {"none", "open", "completed", "cancelled", "expired"},
            owner : Owner \union {None}, number : Number \union {None}, until : Time]

LEMMA PoolParts ==
  PoolTypeOK <=> /\ numbers \in [Number -> NumberRow] /\ openOrders \in [OpenOrder -> OpenRow]
                 /\ clock \in 1 .. MaxTime
  BY DEF PoolTypeOK, NumberRow, OpenRow

LEMMA Windows ==
  /\ 0 \in Time
  /\ PoolTypeOK => clock + Ttl \in Time /\ clock + Ttl # 0
<1>1. Ttl \in Nat \ {0} /\ MaxTime \in Nat
  BY PoolAssumption
<1>2. 0 \in Time
  BY <1>1 DEF Time
<1>3. ASSUME PoolTypeOK PROVE clock + Ttl \in Time /\ clock + Ttl # 0
  <2>1. clock \in 1 .. MaxTime
    BY <1>3 DEF PoolTypeOK
  <2>. QED BY <1>1, <2>1 DEF Time
<1>. QED BY <1>2, <1>3

LEMMA HeldFacts ==
  ASSUME PoolTypeOK, NEW n \in Number, NEW oo \in OpenOrder
  PROVE  LET after == Held(n, oo)
         IN  /\ after \in [Number -> NumberRow]
             /\ \A m \in Number \ {n} : after[m] = numbers[m]
             /\ ~ Holdable(n, oo) => after = numbers
             /\ Holdable(n, oo) => /\ after[n].status = "reserved" /\ after[n].until = clock + Ttl
                                   /\ after[n].for = oo
<1> DEFINE row == [status |-> "reserved", until |-> clock + Ttl, for |-> oo]
<1>1. /\ row \in NumberRow /\ row.status = "reserved" /\ row.until = clock + Ttl /\ row.for = oo
  BY Windows DEF NumberRow
<1>2. Held(n, oo) = IF Holdable(n, oo) THEN [numbers EXCEPT ![n] = row] ELSE numbers
  BY DEF Held
<1> HIDE DEF row
<1>. QED BY <1>1, <1>2, PoolParts

LEMMA ReleasedFacts ==
  ASSUME PoolTypeOK, NEW oos \in SUBSET OpenOrder
  PROVE  LET after == Released(numbers, oos)
         IN  /\ after \in [Number -> NumberRow]
             /\ \A n \in Number : after[n] = IF numbers[n].for \in oos /\ Soft(n) THEN Free ELSE numbers[n]
<1>1. Free \in NumberRow
  BY Windows DEF Free, NumberRow
<1>. QED BY <1>1, PoolParts DEF Released, Soft

LEMMA ClosedFacts ==
  ASSUME PoolTypeOK, NEW oos \in SUBSET OpenOrder, NEW status \in {"completed", "cancelled", "expired"}
  PROVE  LET after == Closed(oos, status)
         IN  /\ after \in [OpenOrder -> OpenRow]
             /\ \A oo \in OpenOrder \ oos : after[oo] = openOrders[oo]
             /\ \A oo \in oos : after[oo].status = status /\ after[oo].number = openOrders[oo].number
<1>1. \A oo \in OpenOrder : [openOrders[oo] EXCEPT !.status = status, !.until = 0] \in OpenRow
  <2> SUFFICES ASSUME NEW oo \in OpenOrder
               PROVE  [openOrders[oo] EXCEPT !.status = status, !.until = 0] \in OpenRow
    OBVIOUS
  <2>1. openOrders[oo] \in OpenRow
    BY PoolParts
  <2>. QED BY <2>1, Windows DEF OpenRow
<1>2. \A oo \in OpenOrder :
        LET row == [openOrders[oo] EXCEPT !.status = status, !.until = 0]
        IN  row.status = status /\ row.number = openOrders[oo].number
  <2> SUFFICES ASSUME NEW oo \in OpenOrder
               PROVE  LET row == [openOrders[oo] EXCEPT !.status = status, !.until = 0]
                      IN  row.status = status /\ row.number = openOrders[oo].number
    OBVIOUS
  <2>1. openOrders[oo] \in OpenRow
    BY PoolParts
  <2>. QED BY <2>1 DEF OpenRow
<1>. QED BY <1>1, <1>2, PoolParts DEF Closed

(* An open order is resumed: only its window moves. *)
LEMMA ResumeFacts ==
  ASSUME PoolTypeOK, NEW owner \in Owner, NEW n \in Number, NEW oo \in OpenOrder, Resume(owner, n, oo)
  PROVE  /\ openOrders' \in [OpenOrder -> OpenRow]
         /\ openOrders[oo].status = "open" /\ openOrders[oo].number = n
         /\ openOrders'[oo].status = "open" /\ openOrders'[oo].number = n
         /\ openOrders'[oo].until = clock + Ttl
         /\ \A p \in OpenOrder \ {oo} : openOrders'[p] = openOrders[p]
         /\ numbers' = Held(n, oo)
<1> DEFINE row == [openOrders[oo] EXCEPT !.until = clock + Ttl]
<1>1. openOrders[oo] \in OpenRow /\ openOrders[oo].status = "open" /\ openOrders[oo].number = n
  BY PoolParts DEF Resume, OpenOf
<1>2. row \in OpenRow /\ row.status = "open" /\ row.number = n /\ row.until = clock + Ttl
  BY <1>1, Windows DEF OpenRow
<1>3. openOrders' = [openOrders EXCEPT ![oo] = row] /\ numbers' = Held(n, oo)
  BY DEF Resume
<1> HIDE DEF row
<1>. QED BY <1>1, <1>2, <1>3, PoolParts

LEMMA OpenFacts ==
  ASSUME PoolTypeOK, NEW owner \in Owner, NEW n \in Number, NEW oo \in OpenOrder, Open(owner, n, oo)
  PROVE  /\ openOrders' \in [OpenOrder -> OpenRow]
         /\ openOrders[oo].status = "none" /\ Holdable(n, oo)
         /\ openOrders'[oo].status = "open" /\ openOrders'[oo].number = n
         /\ openOrders'[oo].until = clock + Ttl
         /\ \A p \in OpenOrder \ {oo} : openOrders'[p] = openOrders[p]
         /\ numbers' = Held(n, oo)
<1> DEFINE row == [status |-> "open", owner |-> owner, number |-> n, until |-> clock + Ttl]
<1>1. row \in OpenRow /\ row.status = "open" /\ row.number = n /\ row.until = clock + Ttl
  BY Windows DEF OpenRow
<1>2. openOrders' = [openOrders EXCEPT ![oo] = row] /\ numbers' = Held(n, oo)
  BY DEF Open
<1>3. openOrders[oo].status = "none" /\ Holdable(n, oo)
  BY DEF Open, IsNext
<1> HIDE DEF row
<1>. QED BY <1>1, <1>2, <1>3, PoolParts

(* The statements about the number of an order. *)
NumberWritten(n) ==
    /\ numbers' \in [Number -> NumberRow]
    /\ \A m \in Number \ {n} : numbers'[m] = numbers[m]

LEMMA ReserveFacts ==
  ASSUME PoolTypeOK, NEW n \in Number, ReserveNext(n)
  PROVE  /\ NumberWritten(n) /\ Claimable(n)
         /\ numbers'[n].status = "reserved" /\ numbers'[n].until = 0 /\ numbers'[n].for = None
<1> DEFINE row == [status |-> "reserved", until |-> 0, for |-> None]
<1>1. row \in NumberRow /\ row.status = "reserved" /\ row.until = 0 /\ row.for = None
  BY Windows DEF NumberRow
<1>2. numbers' = [numbers EXCEPT ![n] = row] /\ Claimable(n)
  BY DEF ReserveNext
<1> HIDE DEF row
<1>. QED BY <1>1, <1>2, PoolParts DEF NumberWritten

LEMMA AssignFacts ==
  ASSUME PoolTypeOK, NEW n \in Number, AssignMsisdn(n)
  PROVE  /\ NumberWritten(n) /\ numbers'[n].status # "reserved"
         /\ numbers[n].status = "available" <=> numbers'[n].status = "available"
         /\ numbers'[n].until = numbers[n].until /\ numbers'[n].for = numbers[n].for
<1> DEFINE row == [numbers[n] EXCEPT !.status = "assigned"]
<1>1. numbers[n] \in NumberRow
  BY PoolParts
<1>2. /\ row \in NumberRow /\ row.status = "assigned"
      /\ row.until = numbers[n].until /\ row.for = numbers[n].for
  BY <1>1 DEF NumberRow
<1>3. numbers' = IF numbers[n].status \in {"reserved", "assigned"}
                 THEN [numbers EXCEPT ![n] = row] ELSE numbers
  BY DEF AssignMsisdn
<1>4. numbers[n].status \notin {"reserved", "assigned"} <=> numbers[n].status = "available"
  BY <1>1 DEF NumberRow
<1> HIDE DEF row
<1>. QED BY <1>2, <1>3, <1>4, PoolParts DEF NumberWritten

LEMMA ReleaseFacts ==
  ASSUME PoolTypeOK, NEW n \in Number, ReleaseMsisdn(n)
  PROVE  /\ NumberWritten(n) /\ numbers'[n].status = "available"
         /\ ~ Taken(n) => numbers' = numbers
<1> DEFINE row == [numbers[n] EXCEPT !.status = "available"]
<1>1. numbers[n] \in NumberRow
  BY PoolParts
<1>2. row \in NumberRow /\ row.status = "available"
  BY <1>1 DEF NumberRow
<1>3. numbers' = IF numbers[n].status \in {"reserved", "assigned"}
                 THEN [numbers EXCEPT ![n] = row] ELSE numbers
  BY DEF ReleaseMsisdn
<1>4. numbers[n].status \notin {"reserved", "assigned"} => numbers[n].status = "available"
  BY <1>1 DEF NumberRow
<1> HIDE DEF row
<1>. QED BY <1>2, <1>3, <1>4, PoolParts DEF NumberWritten, Taken


-----------------------------------------------------------------------------
(* What the transactions of the pool keep: holds in reach, and hard reservations hard. *)

(* A hold is made for a new open order, or for one whose cancellations are told. *)
Grown ==
    /\ crossed \subseteq crossed'
    /\ \A oo \in OpenOrder : openOrders[oo].status # "none" => openOrders'[oo].status # "none"
    /\ \A n \in Number : numbers'[n].status = "reserved" /\ numbers'[n].until # 0 =>
          \/ Soft(n) /\ numbers[n].for = numbers'[n].for
          \/ openOrders[numbers'[n].for].status = "none"
          \/ BeingCancelled(numbers'[n].for) \subseteq crossed'

PoolKept ==
    /\ PoolTypeOK' /\ HoldInv' /\ Grown
    /\ \A n \in Number : Hard(n) => numbers'[n] = numbers[n]

LEMMA CrossKept ==
  ASSUME CrossInv, Grown,
         \A q \in Request :
            \/ requests'[q] = requests[q]
            \/ requests'[q].at \notin {"cancel", "cancelling"}
            \/ /\ openOrders'[requests'[q].openOrder].status # "none"
               /\ requests'[q].at = "cancelling" =>
                     \A n \in Number : ~ (/\ numbers'[n].status = "reserved" /\ numbers'[n].until # 0
                                         /\ numbers'[n].for = requests'[q].openOrder),
         \A q \in Request : requests[q].at \in {"cancel", "cancelling"} =>
            requests[q].openOrder \in OpenOrder
  PROVE  CrossInv'
<1> SUFFICES ASSUME NEW q \in Request, requests'[q].at \in {"cancel", "cancelling"}
             PROVE  LET oo == requests'[q].openOrder
                    IN  /\ openOrders'[oo].status # "none"
                        /\ requests'[q].at = "cancelling" =>
                             \A n \in Number : /\ numbers'[n].status = "reserved"
                                              /\ numbers'[n].until # 0 /\ numbers'[n].for = oo
                                              => oo \in crossed'
  BY DEF CrossInv, Soft
<1>1. CASE requests'[q] = requests[q]
  <2> DEFINE oo == requests[q].openOrder
  <2>1. oo \in OpenOrder /\ openOrders[oo].status # "none" /\ openOrders'[oo].status # "none"
    BY <1>1 DEF CrossInv, Grown
  <2>2. requests[q].at = "cancelling" => oo \in BeingCancelled(oo)
    BY DEF BeingCancelled, At
  <2>3. ASSUME requests[q].at = "cancelling", NEW n \in Number, numbers'[n].status = "reserved",
               numbers'[n].until # 0, numbers'[n].for = oo
        PROVE  oo \in crossed'
    BY <1>1, <2>1, <2>2, <2>3 DEF CrossInv, Grown
  <2>. QED BY <1>1, <2>1, <2>3
<1>2. CASE requests'[q] # requests[q]
  BY <1>2
<1>. QED BY <1>1, <1>2

LEMMA HardIsHard ==
  ASSUME NEW n \in Number, Hard(n)
  PROVE  ~ Soft(n) /\ ~ Claimable(n) /\ \A oo \in OpenOrder : ~ Holdable(n, oo)
<1>1. None \notin OpenOrder
  BY PoolAssumption
<1>. QED BY <1>1 DEF Hard, Soft, Claimable, Holdable

LEMMA PoolOpens ==
  ASSUME PoolTypeOK, HoldInv, NEW owner \in Owner, NEW n \in Number, NEW oo \in OpenOrder,
         \/ Resume(owner, n, oo) /\ crossed' = crossed \union BeingCancelled(oo)
         \/ Open(owner, n, oo) /\ UNCHANGED crossed,
         UNCHANGED clock
  PROVE  PoolKept
<1>1. /\ openOrders' \in [OpenOrder -> OpenRow]
      /\ openOrders'[oo].status = "open" /\ openOrders'[oo].number = n
      /\ openOrders'[oo].until = clock + Ttl
      /\ \A p \in OpenOrder \ {oo} : openOrders'[p] = openOrders[p]
      /\ numbers' = Held(n, oo)
      /\ \/ openOrders[oo].status = "none" /\ Holdable(n, oo)
         \/ openOrders[oo].status = "open" /\ openOrders[oo].number = n
  BY ResumeFacts, OpenFacts
<1>2. /\ numbers' \in [Number -> NumberRow]
      /\ \A m \in Number \ {n} : numbers'[m] = numbers[m]
      /\ ~ Holdable(n, oo) => numbers' = numbers
      /\ Holdable(n, oo) => numbers'[n].until = clock + Ttl /\ numbers'[n].for = oo
  BY <1>1, HeldFacts
<1>3. PoolTypeOK'
  BY <1>1, <1>2 DEF PoolTypeOK, NumberRow, OpenRow
<1>4. \A m \in Number : Hard(m) => numbers'[m] = numbers[m]
  BY <1>2, HardIsHard
<1>5. ASSUME NEW m \in Number, numbers'[m].status = "reserved", numbers'[m].until # 0
      PROVE  LET p == numbers'[m].for
             IN  /\ p \in OpenOrder /\ openOrders'[p].number = m
                 /\ \/ openOrders'[p].status = "completed"
                    \/ openOrders'[p].status = "open" /\ openOrders'[p].until = numbers'[m].until
                    \/ openOrders'[p].status = "cancelled" /\ p \in crossed'
  <2>1. CASE m = n /\ Holdable(n, oo)
    BY <1>1, <1>2, <2>1
  <2>2. CASE m # n \/ ~ Holdable(n, oo)
    <3>1. numbers'[m] = numbers[m] /\ Soft(m)
      BY <1>2, <1>5, <2>2 DEF Soft
    <3>2. numbers[m].for # oo
      <4>1. CASE openOrders[oo].status = "none"
        BY <3>1, <4>1 DEF HoldInv
      <4>2. CASE openOrders[oo].number = n /\ openOrders[oo].status = "open"
        BY <2>2, <3>1, <4>2 DEF HoldInv, Holdable
      <4>. QED BY <1>1, <4>1, <4>2
    <3>. QED BY <1>1, <3>1, <3>2 DEF HoldInv
  <2>. QED BY <2>1, <2>2
<1>6. HoldInv'
  BY <1>5 DEF HoldInv, Soft
<1>7. Grown
  <2>1. crossed \subseteq crossed'
    OBVIOUS
  <2>2. openOrders[oo].status = "none" \/ BeingCancelled(oo) \subseteq crossed'
    BY <1>1, OpenFacts
  <2>3. ASSUME NEW m \in Number, numbers'[m].status = "reserved", numbers'[m].until # 0
        PROVE  \/ Soft(m) /\ numbers[m].for = numbers'[m].for
               \/ openOrders[numbers'[m].for].status = "none"
               \/ BeingCancelled(numbers'[m].for) \subseteq crossed'
    <3>1. CASE m = n /\ Holdable(n, oo)
      BY <1>2, <2>2, <3>1
    <3>2. CASE m # n \/ ~ Holdable(n, oo)
      BY <1>2, <2>3, <3>2 DEF Soft
    <3>. QED BY <3>1, <3>2
  <2>. QED BY <1>1, <2>1, <2>3 DEF Grown
<1>. QED BY <1>3, <1>4, <1>6, <1>7 DEF PoolKept

LEMMA PoolCompletes ==
  ASSUME PoolTypeOK, HoldInv, NEW oo \in OpenOrder, UNCHANGED <<clock, crossed>>,
         \/ CompleteOpenOrder(oo)
         \/ CancelUnheld(oo) /\ \A n \in Number : Soft(n) /\ numbers[n].for = oo => oo \in crossed
  PROVE  PoolKept
<1>1. /\ openOrders' \in [OpenOrder -> OpenRow] /\ UNCHANGED numbers
      /\ \A p \in OpenOrder \ {oo} : openOrders'[p] = openOrders[p]
      /\ openOrders'[oo].number = openOrders[oo].number
      /\ \/ openOrders'[oo].status = "completed"
         \/ /\ openOrders'[oo].status = "cancelled"
            /\ \A n \in Number : Soft(n) /\ numbers[n].for = oo => oo \in crossed
  BY ClosedFacts DEF CompleteOpenOrder, CancelUnheld
<1>2. PoolTypeOK'
  BY <1>1 DEF PoolTypeOK, OpenRow
<1>3. HoldInv'
  BY <1>1 DEF HoldInv, Soft
<1>4. Grown
  BY <1>1 DEF Grown, Soft
<1>. QED BY <1>1, <1>2, <1>3, <1>4 DEF PoolKept

LEMMA PoolReleases ==
  ASSUME PoolTypeOK, HoldInv, NEW oos \in SUBSET OpenOrder, NEW status \in {"cancelled", "expired"},
         numbers' = Released(numbers, oos), openOrders' = Closed(oos, status),
         UNCHANGED <<clock, crossed>>
  PROVE  PoolKept
<1>1. /\ openOrders' \in [OpenOrder -> OpenRow]
      /\ \A p \in OpenOrder \ oos : openOrders'[p] = openOrders[p]
      /\ \A p \in oos : openOrders'[p].status = status
  BY ClosedFacts
<1>2. /\ numbers' \in [Number -> NumberRow]
      /\ \A n \in Number : numbers'[n] = IF numbers[n].for \in oos /\ Soft(n) THEN Free ELSE numbers[n]
  BY ReleasedFacts
<1>3. PoolTypeOK'
  BY <1>1, <1>2 DEF PoolTypeOK, NumberRow, OpenRow
<1>4. \A n \in Number : Hard(n) => numbers'[n] = numbers[n]
  BY <1>2, HardIsHard
<1>5. ASSUME NEW n \in Number, numbers'[n].status = "reserved", numbers'[n].until # 0
      PROVE  numbers'[n] = numbers[n] /\ Soft(n) /\ numbers[n].for \notin oos
  BY <1>2, <1>5 DEF Free, Soft
<1>6. HoldInv'
  BY <1>1, <1>5 DEF HoldInv, Soft
<1>7. Grown
  BY <1>1, <1>5 DEF Grown
<1>. QED BY <1>3, <1>4, <1>6, <1>7 DEF PoolKept

(* Reserved for good, assigned, or released: no hold is made. *)
LEMMA PoolOrders ==
  ASSUME PoolTypeOK, HoldInv, NEW n \in Number, ReserveNext(n) \/ AssignMsisdn(n) \/ ReleaseMsisdn(n),
         UNCHANGED <<openOrders, clock, crossed>>
  PROVE  PoolTypeOK' /\ HoldInv' /\ Grown /\ \A m \in Number \ {n} : numbers'[m] = numbers[m]
<1>1. /\ NumberWritten(n)
      /\ numbers'[n].status # "reserved" \/ numbers'[n].until = 0
  BY ReserveFacts, AssignFacts, ReleaseFacts
<1>2. PoolTypeOK'
  BY <1>1 DEF NumberWritten, PoolTypeOK, NumberRow
<1>3. ASSUME NEW m \in Number, numbers'[m].status = "reserved", numbers'[m].until # 0
      PROVE  numbers'[m] = numbers[m] /\ Soft(m)
  BY <1>1, <1>3 DEF NumberWritten, Soft
<1>4. HoldInv'
  BY <1>3 DEF HoldInv, Soft
<1>5. Grown
  BY <1>3 DEF Grown
<1>. QED BY <1>1, <1>2, <1>4, <1>5 DEF NumberWritten

-----------------------------------------------------------------------------
(* What a request does to its copy of the session. *)

Row == InFlight \union Cancelling \union Terminating \union {Idle}
PortalOK ==
    /\ store \in [Session -> SignupSession \union {NoSession}]
    /\ requests \in [Request -> Row]
PeopleOK ==
    /\ decision \in [Session -> {"pending", "approved", "declined", "overtaken"}]
    /\ link \in [Owner -> Customer \union {None}]
    /\ customers \in [Customer -> [status : {"none", "active", "gone"}, owner : Owner \union {None},
                                   verified : BOOLEAN, card : BOOLEAN]]
OrdersOK ==
    orders \in [Order -> [state : {"none", "created", "submitted", "reserved", "charging",
                                   "retried", "completed", "terminated", "failed", "parked"},
                          customer : Customer \union {None}, number : Number \union {None}]]
BoundsOK ==
    /\ hosted \in Deployments /\ faults \in 0 .. MaxFaults
    /\ crossed \subseteq OpenOrder /\ given \subseteq Order /\ astray \in BOOLEAN

LEMMA TypeParts == TypeOK <=> PoolTypeOK /\ PortalOK /\ PeopleOK /\ OrdersOK /\ BoundsOK
  BY DEF TypeOK, PortalOK, Row, PeopleOK, OrdersOK, BoundsOK

LEMMA RequestFacts ==
  ASSUME TypeInv, NEW r \in Request
  PROVE  /\ requests[r] \in Row /\ CopyFilled(requests[r])
         /\ requests[r].at \in Call => requests[r] \in InFlight
         /\ requests[r].at \in {"cancel", "cancelling"} =>
               requests[r] \in Cancelling /\ requests[r].openOrder \in OpenOrder
         /\ requests[r].at \in {"release", "terminate"} =>
               requests[r] \in Terminating /\ requests[r].order \in Order
<1>1. requests[r] \in Row /\ CopyFilled(requests[r])
  BY DEF TypeInv, TypeOK, Row
<1>. QED BY <1>1 DEF Row, InFlight, Cancelling, Terminating, Idle, Call

(* Next, by what the steps write: the open orders and their holds, the portal alone,  *)
(* people, orders, and the numbers of orders.                                         *)
OrderStep(o) ==
    \/ Fulfil(o)
    \/ \E r \in Request : (TerminateRelease(r) \/ TerminateCommit(r)) /\ requests[r].order = o

LEMMA NextCases ==
  ASSUME TypeInv, Next
  PROVE  \/ \E r \in Request : OpenOrderAnswered(r) \/ Close(r) \/ Cancel(r) \/ CancelCommit(r)
         \/ Sweep \/ Advance
         \/ \E r \in Request, s \in Session, w \in Owner, n \in Number : Submit(r, s, w, n)
         \/ \E r \in Request, s \in Session :
               \/ StepKyc(r, s) \/ KycPoll(r, s) \/ StepCof(r, s) \/ CheckoutInit(r, s)
               \/ CheckoutReturn(r, s) \/ StepOrder(r, s) \/ StepPoll(r, s)
         \/ \E r \in Request : ResumeCustomer(r) \/ DropGhost(r) \/ Write(r) \/ Abandon(r)
                               \/ AttestationMissing(r)
         \/ \E r \in Request : \/ CancelUnmatched(r) \/ \E w \in Owner : CancelLookup(r, w)
                               \/ \E o \in Order : TerminateRead(r, o)
         \/ \E s \in Session : LoseSession(s)
         \/ \E r \in Request : CreateCustomer(r) \/ Bind(r) \/ Attest(r) \/ AddCard(r)
         \/ \E s \in Session : KycWebhook(s)
         \/ \E w \in Owner : Login(w)
         \/ \E c \in Customer : DeleteCustomer(c)
         \/ \E r \in Request : CreateOrder(r) \/ SubmitOrder(r)
         \/ \E o \in Order : OrderStep(o)
<1>1. ASSUME NEW r \in Request, TerminateRelease(r) \/ TerminateCommit(r)
      PROVE  \E o \in Order : OrderStep(o)
  <2>1. requests[r].order \in Order
    BY <1>1, RequestFacts DEF TerminateRelease, TerminateCommit, At
  <2>. QED BY <1>1, <2>1 DEF OrderStep
<1>2. ASSUME NEW r \in Request, Handle(r), ~ TerminateRelease(r), ~ TerminateCommit(r)
      PROVE  \/ OpenOrderAnswered(r) \/ Close(r) \/ Cancel(r) \/ CancelCommit(r)
             \/ ResumeCustomer(r) \/ DropGhost(r) \/ Write(r) \/ Abandon(r) \/ AttestationMissing(r)
             \/ CancelUnmatched(r) \/ \E w \in Owner : CancelLookup(r, w)
             \/ \E o \in Order : TerminateRead(r, o)
             \/ CreateCustomer(r) \/ Bind(r) \/ Attest(r) \/ AddCard(r)
             \/ CreateOrder(r) \/ SubmitOrder(r)
  BY <1>2 DEF Handle
<1>3. \A o \in Order : Fulfil(o) => OrderStep(o)
  BY DEF OrderStep
<1>. QED BY <1>1, <1>2, <1>3 DEF Next, Start

(* A request writes its own row. *)
LEMMA RowWritten ==
  ASSUME TypeInv, NEW r \in Request, NEW row \in Row, CopyFilled(row),
         requests' = [requests EXCEPT ![r] = row]
  PROVE  /\ requests' \in [Request -> Row]
         /\ requests'[r] = row /\ \A q \in Request \ {r} : requests'[q] = requests[q]
         /\ \A q \in Request : CopyFilled(requests'[q])
<1>1. requests \in [Request -> Row] /\ \A q \in Request : CopyFilled(requests[q])
  BY DEF TypeInv, TypeOK, Row
<1>2. /\ requests' \in [Request -> Row]
      /\ requests'[r] = row /\ \A q \in Request \ {r} : requests'[q] = requests[q]
  BY <1>1
<1>. QED BY <1>1, <1>2

LEMMA RowEnds ==
  ASSUME TypeInv, NEW r \in Request, requests' = [requests EXCEPT ![r] = Idle]
  PROVE  /\ requests' \in [Request -> Row]
         /\ requests'[r] = Idle /\ \A q \in Request \ {r} : requests'[q] = requests[q]
         /\ \A q \in Request : CopyFilled(requests'[q])
<1>1. Idle \in Row /\ CopyFilled(Idle)
  BY DEF Row, Idle, CopyFilled, Call
<1>. QED BY <1>1, RowWritten

LEMMA RowProceeds ==
  ASSUME TypeInv, NEW r \in Request, requests[r].at \in Call, NEW at \in Call \ {"close", "write"},
         NEW sig \in SignupSession, at = "lookup" => requests[r].linked \in Customer, Proceed(r, at, sig)
  PROVE  /\ requests' \in [Request -> Row]
         /\ requests'[r].at = at /\ requests'[r].sig = sig
         /\ \A q \in Request \ {r} : requests'[q] = requests[q]
         /\ \A q \in Request : CopyFilled(requests'[q])
<1> DEFINE row == [[requests[r] EXCEPT !.at = at] EXCEPT !.sig = sig]
<1>1. requests[r] \in InFlight
  BY RequestFacts
<1>2. row \in InFlight /\ row.at = at /\ row.sig = sig /\ row.linked = requests[r].linked
  BY <1>1 DEF InFlight
<1>3. requests' = [requests EXCEPT ![r] = row]
  BY DEF Proceed, TypeInv, TypeOK
<1> HIDE DEF row
<1>4. row \in Row /\ CopyFilled(row)
  BY <1>2 DEF Row, CopyFilled
<1>. QED BY <1>2, <1>3, <1>4, RowWritten

LEMMA RowConcludes ==
  ASSUME TypeInv, NEW r \in Request, requests[r].at \in Call,
         NEW sig \in SignupSession \union {Failed}, Conclude(r, sig)
  PROVE  /\ requests' \in [Request -> Row]
         /\ requests'[r].at = "write" /\ requests'[r].sig = sig
         /\ \A q \in Request \ {r} : requests'[q] = requests[q]
         /\ \A q \in Request : CopyFilled(requests'[q])
<1> DEFINE row == [[[requests[r] EXCEPT !.at = "write"] EXCEPT !.sig = sig] EXCEPT !.linked = None]
<1>1. requests[r] \in InFlight
  BY RequestFacts
<1>2. row \in InFlight /\ row.at = "write" /\ row.sig = sig
  BY <1>1 DEF InFlight, Call
<1>3. requests' = [requests EXCEPT ![r] = row]
  BY DEF Conclude, TypeInv, TypeOK
<1> HIDE DEF row
<1>4. row \in Row /\ CopyFilled(row)
  BY <1>2 DEF Row, CopyFilled
<1>. QED BY <1>2, <1>3, <1>4, RowWritten

(* A copy of the session is taken. *)
LEMMA RowResolves ==
  ASSUME TypeInv, NEW r \in Request, NEW s \in Session,
         NEW at \in {"attest", "card", "order", "write"},
         NEW sig \in SignupSession \union {Failed}, at # "write" => sig \in SignupSession,
         Resolve(r, s, at, sig)
  PROVE  /\ requests' \in [Request -> Row]
         /\ requests'[r].at = at /\ requests'[r].sig = sig
         /\ \A q \in Request \ {r} : requests'[q] = requests[q]
         /\ \A q \in Request : CopyFilled(requests'[q])
         /\ OnlyRequests
<1> DEFINE row == [at |-> at, id |-> s, sig |-> sig, linked |-> None]
<1>1. row \in InFlight /\ row.at = at /\ row.sig = sig
  BY DEF InFlight, Call
<1>2. requests' = [requests EXCEPT ![r] = row] /\ OnlyRequests
  BY DEF Resolve
<1> HIDE DEF row
<1>3. row \in Row /\ CopyFilled(row)
  BY <1>1 DEF Row, CopyFilled
<1>. QED BY <1>1, <1>2, <1>3, RowWritten

PortalStep(r) ==
    /\ requests' \in [Request -> Row]
    /\ \A q \in Request \ {r} : requests'[q] = requests[q]
    /\ \A q \in Request : CopyFilled(requests'[q])
    /\ requests'[r].at \notin {"submit", "cancel", "cancelling", "release", "terminate"}

Counted == UNCHANGED faults \/ Fault

LEMMA SameTypes ==
  ASSUME TypeInv
  PROVE  /\ UNCHANGED pool => PoolTypeOK'
         /\ UNCHANGED store => store' \in [Session -> SignupSession \union {NoSession}]
         /\ UNCHANGED requests => /\ requests' \in [Request -> Row]
                                  /\ \A q \in Request : CopyFilled(requests'[q])
         /\ UNCHANGED people => PeopleOK'
         /\ UNCHANGED orders => OrdersOK' /\ Numbered'
         /\ UNCHANGED <<hosted, crossed, numbering>> /\ Counted => BoundsOK'
<1>0. PoolTypeOK /\ PortalOK /\ PeopleOK /\ OrdersOK /\ BoundsOK /\ Numbered
      /\ \A r \in Request : CopyFilled(requests[r])
  BY TypeParts DEF TypeInv
<1>1. UNCHANGED pool => PoolTypeOK'
  BY <1>0 DEF pool, PoolTypeOK
<1>2. UNCHANGED people => PeopleOK'
  BY <1>0 DEF people, PeopleOK
<1>3. UNCHANGED orders => OrdersOK' /\ Numbered'
  BY <1>0 DEF OrdersOK, Numbered
<1>4. UNCHANGED <<hosted, crossed, numbering>> /\ Counted => BoundsOK'
  BY <1>0, SignupAssumption DEF Counted, Fault, BoundsOK, numbering
<1>. QED BY <1>0, <1>1, <1>2, <1>3, <1>4 DEF PortalOK

LEMMA TypeJoins ==
  ASSUME PoolTypeOK', store' \in [Session -> SignupSession \union {NoSession}],
         requests' \in [Request -> Row], \A q \in Request : CopyFilled(requests'[q]),
         PeopleOK', OrdersOK', Placed', Numbered', BoundsOK'
  PROVE  TypeInv'
<1>1. PortalOK' /\ \A q \in Request : CopyFilled(requests[q])'
  BY DEF PortalOK, CopyFilled
<1>2. TypeOK'
  BY <1>1, TypeParts, PTL
<1>. QED BY <1>1, <1>2 DEF TypeInv

(* The request that moves is not about to submit or to terminate. *)
LEMMA PlacedKept ==
  ASSUME TypeInv, NEW r \in Request, PortalStep(r), UNCHANGED orders
  PROVE  Placed'
  BY DEF PortalStep, Placed, TypeInv

(* Only the portal moves. *)
LEMMA PortalJoins ==
  ASSUME TypeInv, NEW r \in Request, PortalStep(r),
         UNCHANGED <<pool, store, people, orders, hosted, crossed, numbering>>, Counted
  PROVE  TypeInv'
  BY PlacedKept, SameTypes, TypeJoins DEF PortalStep

Steps == {"customer", "kyc", "handoff", "cof", "order", "activation", "completed"}

LEMMA SessionMoves ==
  ASSUME NEW sig \in SignupSession, NEW step \in Steps
  PROVE  LET next == [sig EXCEPT !.step = step]
         IN  /\ next \in SignupSession /\ next.step = step
             /\ next.customer = sig.customer /\ next.openOrder = sig.openOrder
  BY DEF SignupSession, Steps

LEMMA SessionNamed ==
  ASSUME NEW sig \in SignupSession, NEW c \in Customer
  PROVE  LET next == [sig EXCEPT !.customer = c]
         IN  /\ next \in SignupSession /\ next.step = sig.step /\ next.customer = c
  BY DEF SignupSession

LEMMA SessionOrdered ==
  ASSUME NEW sig \in SignupSession
  PROVE  /\ \A oo \in OpenOrder : LET next == [sig EXCEPT !.openOrder = oo]
                                  IN  /\ next \in SignupSession /\ next.step = sig.step
                                      /\ next.customer = sig.customer
         /\ \A o \in Order : LET next == [sig EXCEPT !.order = o]
                             IN  /\ next \in SignupSession /\ next.step = sig.step
                                 /\ next.customer = sig.customer
  BY DEF SignupSession

LEMMA FailedFacts ==
  Failed.step = "failed" /\ Passed(Failed)
  BY DEF Failed, Passed

LEMMA SessionFacts ==
  ASSUME TypeInv, NEW s \in Session, store[s].step \in Steps
  PROVE  store[s] \in SignupSession
  BY DEF TypeInv, TypeOK, NoSession, Steps

(* The pages: a copy of the session goes to its next call. *)
LEMMA StartFacts ==
  ASSUME TypeInv, NEW r \in Request, NEW s \in Session,
         \/ StepKyc(r, s) \/ KycPoll(r, s) \/ StepCof(r, s) \/ CheckoutInit(r, s)
         \/ CheckoutReturn(r, s) \/ StepOrder(r, s) \/ StepPoll(r, s)
  PROVE  /\ PortalStep(r) /\ OnlyRequests
         /\ Passed(store[s]) => CopyPassed(requests'[r])
<1> DEFINE old == store[s]
<1>0. old \in SignupSession
  BY SessionFacts DEF StepKyc, KycPoll, StepCof, CheckoutInit, CheckoutReturn, StepOrder, StepPoll, Steps
<1>1. ASSUME NEW at \in {"attest", "card", "order"}, Resolve(r, s, at, old),
             at = "attest" => old.step \in {"kyc", "handoff"},
             at = "card" => old.step = "cof", at = "order" => old.step = "order"
      PROVE  /\ PortalStep(r) /\ OnlyRequests
             /\ Passed(store[s]) => CopyPassed(requests'[r])
  BY <1>0, <1>1, RowResolves DEF PortalStep, CopyPassed
<1>2. ASSUME NEW step \in {"handoff", "completed"},
             Resolve(r, s, "write", [old EXCEPT !.step = step]),
             step = "handoff" => old.step = "kyc"
      PROVE  /\ PortalStep(r) /\ OnlyRequests
             /\ Passed(store[s]) => CopyPassed(requests'[r])
  <2> DEFINE next == [old EXCEPT !.step = step]
  <2>0. step \in Steps
    BY DEF Steps
  <2>1. next \in SignupSession /\ next.step = step /\ next.customer = old.customer
    <3> HIDE DEF old
    <3>. QED BY <1>0, <2>0, SessionMoves
  <2>2. Passed(old) => Passed(next)
    BY <1>2, <2>1 DEF Passed
  <2> HIDE DEF next
  <2>3. Resolve(r, s, "write", next)
    BY <1>2 DEF next
  <2>. QED BY <2>1, <2>2, <2>3, RowResolves DEF PortalStep, CopyPassed
<1>3. CASE Resolve(r, s, "write", Failed)
  BY <1>3, RowResolves, FailedFacts DEF PortalStep, CopyPassed
<1>4. CASE Resolve(r, s, "write", old)
  BY <1>0, <1>4, RowResolves DEF PortalStep, CopyPassed
<1>. QED BY <1>1, <1>2, <1>3, <1>4
         DEF StepKyc, KycPoll, StepCof, CheckoutInit, CheckoutReturn, StepOrder, StepPoll

LEMMA SubmitFacts ==
  ASSUME TypeInv, NEW r \in Request, NEW s \in Session, NEW w \in Owner, NEW n \in Number, Submit(r, s, w, n)
  PROVE  /\ PortalStep(r) /\ UNCHANGED <<pool, store, link, customers, orders, hosted, faults, crossed, numbering>>
         /\ PeopleOK' /\ CopyPassed(requests'[r])
<1> DEFINE sig == [owner |-> w, number |-> n, step |-> "customer",
                   openOrder |-> None, customer |-> None, order |-> None]
           row == [at |-> "open", id |-> s, linked |-> link[w], sig |-> sig]
<1>1. sig \in SignupSession /\ sig.step = "customer"
  BY DEF SignupSession
<1>2. link[w] \in Customer \union {None}
  BY DEF TypeInv, TypeOK
<1> HIDE DEF sig
<1>3. row \in InFlight /\ row.at = "open" /\ row.sig = sig
  BY <1>1, <1>2 DEF InFlight, Call
<1>4. requests' = [requests EXCEPT ![r] = row]
  BY DEF Submit, sig
<1> HIDE DEF row
<1>5. row \in Row /\ CopyFilled(row) /\ CopyPassed(row)
  BY <1>1, <1>3 DEF Row, CopyFilled, CopyPassed, Passed
<1>6. PortalStep(r) /\ requests'[r] = row
  BY <1>3, <1>4, <1>5, RowWritten DEF PortalStep
<1>7. UNCHANGED <<pool, store, link, customers, orders, hosted, faults, crossed, numbering>>
  BY DEF Submit
<1>8. PeopleOK'
  BY TypeParts DEF TypeInv, PeopleOK, Submit
<1>. QED BY <1>5, <1>6, <1>7, <1>8

(* The calls that change no service: the customer looked up, a request gone. *)
LEMMA QuietFacts ==
  ASSUME TypeInv, NEW r \in Request,
         ResumeCustomer(r) \/ DropGhost(r) \/ Abandon(r) \/ AttestationMissing(r)
  PROVE  /\ PortalStep(r) /\ UNCHANGED <<pool, store, people, orders, hosted, crossed, numbering>>
         /\ Counted
         /\ KycInv => CopyPassed(requests'[r])
<1>0. /\ UNCHANGED <<pool, store, people, orders, hosted, crossed, numbering>>
      /\ Counted
  BY DEF ResumeCustomer, DropGhost, Abandon, AttestationMissing, OnlyRequests, Counted
<1>1. CASE ResumeCustomer(r)
  <2> DEFINE c == requests[r].linked
             step == IF ~ customers[c].verified THEN "kyc"
                     ELSE IF ~ customers[c].card THEN "cof" ELSE "order"
             named == [requests[r].sig EXCEPT !.customer = c]
             next == [named EXCEPT !.step = step]
  <2>1. requests[r].at = "lookup" /\ requests[r].sig \in SignupSession /\ c \in Customer
    BY <1>1, RequestFacts DEF ResumeCustomer, At, CopyFilled, Call
  <2>2. step \in Steps /\ (step \in {"cof", "order", "activation"} => customers[c].verified)
    BY DEF Steps
  <2>3. named \in SignupSession /\ named.customer = c
    BY <2>1, SessionNamed
  <2>4. Conclude(r, [[requests[r].sig EXCEPT !.customer = c] EXCEPT !.step = step])
    BY <1>1 DEF ResumeCustomer, Sig
  <2> HIDE DEF step, named
  <2>5. next \in SignupSession /\ next.step = step /\ next.customer = c
    BY <2>2, <2>3, SessionMoves
  <2>6. Conclude(r, next)
    BY <2>4 DEF named
  <2> HIDE DEF next
  <2>7. PortalStep(r) /\ requests'[r].at = "write" /\ requests'[r].sig = next
    BY <2>1, <2>5, <2>6, RowConcludes DEF PortalStep, Call
  <2>8. Passed(next)
    BY <2>1, <2>2, <2>5 DEF Passed, Attested
  <2>. QED BY <1>0, <2>7, <2>8 DEF CopyPassed
<1>2. CASE DropGhost(r)
  <2> DEFINE row == [requests[r] EXCEPT !.at = "create"]
  <2>1. requests[r].at = "lookup" /\ requests[r] \in InFlight /\ requests[r].linked \in Customer
    BY <1>2, RequestFacts DEF DropGhost, At, CopyFilled, Call
  <2>2. row \in InFlight /\ row.at = "create" /\ row.sig = requests[r].sig
    BY <2>1 DEF InFlight, Call
  <2>3. requests' = [requests EXCEPT ![r] = row]
    BY <1>2 DEF DropGhost, TypeInv, TypeOK
  <2> HIDE DEF row
  <2>4. row \in Row /\ CopyFilled(row)
    BY <2>1, <2>2, RequestFacts DEF Row, CopyFilled, Call
  <2>5. PortalStep(r) /\ requests'[r] = row
    BY <2>2, <2>3, <2>4, RowWritten DEF PortalStep
  <2>6. KycInv => CopyPassed(row)
    BY <2>1, <2>2 DEF KycInv, CopyPassed, Call
  <2>. QED BY <1>0, <2>5, <2>6
<1>3. CASE Abandon(r)
  <2>1. PortalStep(r) /\ requests'[r] = Idle
    BY <1>3, RowEnds DEF Abandon, PortalStep, Idle
  <2>. QED BY <1>0, <2>1 DEF Idle, CopyPassed, Call
<1>4. CASE AttestationMissing(r)
  <2>1. requests[r].at = "attest" /\ requests[r].sig \in SignupSession /\ Conclude(r, requests[r].sig)
    BY <1>4, RequestFacts DEF AttestationMissing, At, Sig, CopyFilled, Call
  <2>2. requests[r].at \in Call
    BY <2>1 DEF Call
  <2>3. PortalStep(r) /\ requests'[r].at = "write" /\ requests'[r].sig = requests[r].sig
    BY <2>1, <2>2, RowConcludes DEF PortalStep
  <2>. QED BY <1>0, <2>1, <2>3 DEF KycInv, CopyPassed, Call
<1>. QED BY <1>1, <1>2, <1>3, <1>4

(* A cancellation or a termination reads its row. *)
Begins(r, row) ==
    /\ requests' = [requests EXCEPT ![r] = row]
    /\ row.at = "cancel" => openOrders[row.openOrder].status # "none"
    /\ row.at = "cancelling" =>
          /\ CrossInv => openOrders[row.openOrder].status # "none"
          /\ \A n \in Number : ~ (Soft(n) /\ numbers[n].for = row.openOrder)
    /\ row.at \in {"release", "terminate"} => orders[row.order].state = "completed"

LEMMA BeginFacts ==
  ASSUME TypeInv, NEW r \in Request,
         \/ CancelUnmatched(r) \/ \E w \in Owner : CancelLookup(r, w)
         \/ \E o \in Order : TerminateRead(r, o)
  PROVE  /\ OnlyRequests
         /\ requests' \in [Request -> Row] /\ \A q \in Request : CopyFilled(requests'[q])
         /\ \A q \in Request \ {r} : requests'[q] = requests[q]
         /\ Placed' /\ requests'[r].at # "submit"
         /\ requests'[r].at \in {"release", "terminate"} => orders[requests'[r].order].state = "completed"
         /\ CopyPassed(requests'[r])
         /\ CrossInv => CrossInv'
<1>0. OnlyRequests
  BY DEF CancelUnmatched, CancelLookup, TerminateRead
<1>1. PICK row \in Cancelling \union Terminating : Begins(r, row)
  <2>1. CASE CancelUnmatched(r)
    <3> DEFINE row == [requests[r] EXCEPT !.at = "cancelling"]
    <3>1. requests[r].at = "cancel" /\ requests[r] \in Cancelling /\ HoldsOf(requests[r].openOrder) = {}
      BY <2>1, RequestFacts DEF CancelUnmatched, At
    <3>2. row \in Cancelling /\ row.at = "cancelling" /\ row.openOrder = requests[r].openOrder
      BY <3>1 DEF Cancelling
    <3>3. requests' = [requests EXCEPT ![r] = row]
      BY <2>1 DEF CancelUnmatched, TypeInv, TypeOK
    <3> HIDE DEF row
    <3>. QED BY <3>1, <3>2, <3>3 DEF Begins, HoldsOf, CrossInv
  <2>2. ASSUME NEW w \in Owner, CancelLookup(r, w)
        PROVE  \E row \in Cancelling \union Terminating : Begins(r, row)
    <3>1. PICK oo \in OpenOf(w) : requests' = [requests EXCEPT ![r] = [at |-> "cancel", openOrder |-> oo]]
      BY <2>2 DEF CancelLookup
    <3> DEFINE row == [at |-> "cancel", openOrder |-> oo]
    <3>2. row \in Cancelling /\ row.at = "cancel" /\ openOrders[row.openOrder].status # "none"
      BY DEF Cancelling, OpenOf
    <3>. QED BY <3>1, <3>2 DEF Begins
  <2>3. ASSUME NEW o \in Order, TerminateRead(r, o)
        PROVE  \E row \in Cancelling \union Terminating : Begins(r, row)
    <3> DEFINE row == [at |-> "release", order |-> o]
    <3>1. row \in Terminating /\ row.at = "release" /\ orders[row.order].state = "completed"
      BY <2>3 DEF Terminating, TerminateRead
    <3>2. requests' = [requests EXCEPT ![r] = row]
      BY <2>3 DEF TerminateRead
    <3>. QED BY <3>1, <3>2 DEF Begins
  <2>. QED BY <2>1, <2>2, <2>3
<1>2. /\ row \in Row /\ CopyFilled(row) /\ CopyPassed(row)
      /\ row.at \in {"cancel", "cancelling", "release", "terminate"}
  BY DEF Row, Cancelling, Terminating, CopyFilled, CopyPassed, Call
<1>3. /\ requests' \in [Request -> Row] /\ \A q \in Request : CopyFilled(requests'[q])
      /\ requests'[r] = row /\ \A q \in Request \ {r} : requests'[q] = requests[q]
  BY <1>1, <1>2, RowWritten DEF Begins
<1>4. UNCHANGED <<orders, openOrders, numbers, crossed>>
  BY <1>0 DEF OnlyRequests, pool
<1>5. Placed'
  BY <1>1, <1>2, <1>3, <1>4 DEF Begins, Placed, TypeInv
<1>6. CrossInv => CrossInv'
  BY <1>1, <1>2, <1>3, <1>4 DEF Begins, CrossInv, Soft
<1>7. requests'[r].at \in {"release", "terminate"} => orders[requests'[r].order].state = "completed"
  BY <1>1, <1>3 DEF Begins
<1>. QED BY <1>0, <1>2, <1>3, <1>5, <1>6, <1>7

LEMMA WriteFacts ==
  ASSUME TypeInv, NEW r \in Request, Write(r)
  PROVE  /\ PortalStep(r) /\ UNCHANGED <<pool, people, orders, hosted, faults, crossed, numbering>>
         /\ store' \in [Session -> SignupSession \union {NoSession}]
         /\ KycInv => CopyPassed(requests'[r]) /\ \A s \in Session : Passed(store'[s])
<1> DEFINE sig == requests[r].sig
           saved == IF sig.step \in {"completed", "failed"} THEN NoSession ELSE sig
<1>0. /\ requests[r].at = "write" /\ requests[r] \in InFlight /\ sig \in SignupSession \union {Failed}
      /\ UNCHANGED <<pool, people, orders, hosted, faults, crossed, numbering>>
  BY RequestFacts DEF Write, At, CopyFilled, Call
<1>1. saved \in SignupSession \union {NoSession} /\ (Passed(sig) => Passed(saved))
  <2>1. Passed(NoSession)
    BY DEF NoSession, Passed
  <2>. QED BY <1>0, <2>1, FailedFacts
<1>2. requests[r].id \in Session
  BY <1>0 DEF InFlight
<1>3. store' = [store EXCEPT ![requests[r].id] = saved]
  BY DEF Write, Sig
<1>4. /\ store' \in [Session -> SignupSession \union {NoSession}]
      /\ \A s \in Session : store'[s] = store[s] \/ store'[s] = saved
  <2>1. store \in [Session -> SignupSession \union {NoSession}]
    BY TypeParts DEF TypeInv, PortalOK
  <2> HIDE DEF saved
  <2>. QED BY <1>1, <1>2, <1>3, <2>1
<1>5. CASE sig.step = "completed" /\ sig.openOrder # None
  <2> DEFINE row == [requests[r] EXCEPT !.at = "close"]
  <2>1. sig \in SignupSession /\ sig.openOrder \in OpenOrder
    <3>1. sig \in SignupSession
      BY <1>0, <1>5, FailedFacts
    <3>. QED BY <1>5, <3>1 DEF SignupSession
  <2>2. row \in InFlight /\ row.at = "close" /\ row.sig = sig
    BY <1>0 DEF InFlight, Call
  <2>3. requests' = [requests EXCEPT ![r] = row]
    BY <1>5 DEF Write, Sig, TypeInv, TypeOK
  <2> HIDE DEF row
  <2>4. row \in Row /\ CopyFilled(row) /\ (Passed(sig) => CopyPassed(row))
    BY <2>1, <2>2 DEF Row, CopyFilled, CopyPassed
  <2>5. PortalStep(r) /\ requests'[r] = row
    BY <2>2, <2>3, <2>4, RowWritten DEF PortalStep
  <2>. QED BY <2>4, <2>5, <1>0, <1>1, <1>4 DEF KycInv, CopyPassed, Call
<1>6. CASE ~ (sig.step = "completed" /\ sig.openOrder # None)
  <2>1. requests' = [requests EXCEPT ![r] = Idle]
    BY <1>6 DEF Write, Sig
  <2>2. PortalStep(r) /\ requests'[r] = Idle
    BY <2>1, RowEnds DEF PortalStep, Idle
  <2>3. CopyPassed(requests'[r])
    BY <2>2 DEF Idle, CopyPassed, Call
  <2>. QED BY <2>2, <2>3, <1>0, <1>1, <1>4 DEF KycInv, CopyPassed, Call
<1>. QED BY <1>5, <1>6

(* The request failed: its copy is about to be written as such. *)
LEMMA FailFacts ==
  ASSUME TypeInv, NEW r \in Request, requests[r].at \in Call, Fail(r)
  PROVE  PortalStep(r) /\ CopyPassed(requests'[r]) /\ requests'[r].at = "write"
<1>1. Conclude(r, Failed)
  BY DEF Fail
<1>. QED BY <1>1, RowConcludes, FailedFacts DEF PortalStep, CopyPassed

LEMMA PoolSame ==
  ASSUME PoolTypeOK, HoldInv, UNCHANGED <<numbers, openOrders, crossed>>, PoolTypeOK'
  PROVE  PoolKept
  BY DEF PoolKept, HoldInv, Soft, Grown

(* The calls about the open order. *)
LEMMA OpenOrderFacts ==
  ASSUME TypeInv, NEW r \in Request,
         OpenOrderAnswered(r) \/ Close(r) \/ Cancel(r) \/ CancelCommit(r)
  PROVE  /\ PortalStep(r) /\ UNCHANGED <<clock, store, people, orders, hosted, faults, numbering>>
         /\ HoldInv /\ CrossInv => PoolKept
         /\ PoolTypeOK' /\ BoundsOK'
         /\ KycInv => CopyPassed(requests'[r])
<1>0. /\ UNCHANGED <<clock, store, people, orders, hosted, faults, numbering>> /\ PoolTypeOK /\ BoundsOK
  BY TypeParts DEF TypeInv, OpenOrderAnswered, Close, Cancel, CancelCommit
<1>1. CASE OpenOrderAnswered(r)
  <2> DEFINE sig == requests[r].sig
             at == IF requests[r].linked = None THEN "create" ELSE "lookup"
  <2>1. /\ requests[r].at = "open" /\ requests[r] \in InFlight /\ sig \in SignupSession
        /\ KycInv => sig.step = "customer"
    BY <1>1, RequestFacts DEF OpenOrderAnswered, At, CopyFilled, Call, KycInv, CopyPassed
  <2>2. sig.owner \in Owner /\ sig.number \in Number /\ requests[r].at \in Call
    BY <2>1 DEF SignupSession, Call
  <2>3. ASSUME NEW oo \in OpenOrder,
               \/ Resume(sig.owner, sig.number, oo) /\ crossed' = crossed \union BeingCancelled(oo)
               \/ Open(sig.owner, sig.number, oo) /\ UNCHANGED crossed,
               Proceed(r, at, [sig EXCEPT !.openOrder = oo])
        PROVE  /\ PortalStep(r) /\ PoolTypeOK' /\ BoundsOK' /\ (HoldInv => PoolKept)
               /\ KycInv => CopyPassed(requests'[r])
    <3> DEFINE next == [sig EXCEPT !.openOrder = oo]
    <3>1. next \in SignupSession /\ next.step = sig.step
      BY <2>1, SessionOrdered
    <3>2. at \in {"create", "lookup"} /\ (at = "lookup" => requests[r].linked \in Customer)
      BY <2>1 DEF InFlight
    <3> HIDE DEF next, at
    <3>3. PortalStep(r) /\ requests'[r].at = at /\ requests'[r].sig = next
      <4>1. Proceed(r, at, next) /\ at \in Call \ {"close", "write"} /\ at # "submit"
        BY <2>3, <3>2 DEF next, Call
      <4>. QED BY <2>2, <3>1, <3>2, <4>1, RowProceeds DEF PortalStep
    <3>4. KycInv => CopyPassed(requests'[r])
      BY <2>1, <3>1, <3>2, <3>3 DEF CopyPassed, Passed
    <3>5. PoolTypeOK'
      <4>1. openOrders' \in [OpenOrder -> OpenRow] /\ numbers' = Held(sig.number, oo)
        <5> HIDE DEF sig
        <5>. QED BY <1>0, <2>2, <2>3, ResumeFacts, OpenFacts
      <4>2. numbers' \in [Number -> NumberRow]
        BY <1>0, <2>2, <4>1, HeldFacts
      <4>. QED BY <1>0, <4>1, <4>2 DEF PoolTypeOK, NumberRow, OpenRow
    <3>6. HoldInv => PoolKept
      <4> HIDE DEF sig
      <4>. QED BY <1>0, <2>2, <2>3, PoolOpens
    <3>7. BoundsOK'
      <4>1. crossed' \subseteq OpenOrder
        BY <1>0, <2>3 DEF BoundsOK, BeingCancelled
      <4>. QED BY <1>0, <4>1 DEF BoundsOK, numbering
    <3>. QED BY <3>3, <3>4, <3>5, <3>6, <3>7
  <2>4. CASE Fail(r) /\ UNCHANGED <<numbers, openOrders, crossed>>
    <3>1. PortalStep(r) /\ CopyPassed(requests'[r])
      BY <2>2, <2>4, FailFacts
    <3>2. PoolTypeOK' /\ BoundsOK'
      BY <1>0, <2>4 DEF PoolTypeOK, BoundsOK, numbering
    <3>. QED BY <1>0, <2>4, <3>1, <3>2, PoolSame
  <2>. QED BY <1>0, <1>1, <2>3, <2>4 DEF OpenOrderAnswered, Sig
<1>2. ASSUME UNCHANGED crossed PROVE BoundsOK'
  BY <1>0, <1>2 DEF BoundsOK, numbering
<1>3. CASE requests' = [requests EXCEPT ![r] = Idle]
  <2>1. PortalStep(r) /\ CopyPassed(requests'[r])
    BY <1>3, RowEnds DEF PortalStep, Idle, CopyPassed, Call
  <2>2. CASE Close(r)
    <3>1. CompleteOpenOrder(requests[r].sig.openOrder) /\ requests[r].sig.openOrder \in OpenOrder
          /\ UNCHANGED crossed
      BY <2>2, RequestFacts DEF Close, Sig, At, CopyFilled
    <3>2. PoolTypeOK'
      <4>1. /\ {requests[r].sig.openOrder} \in SUBSET OpenOrder /\ UNCHANGED numbers
            /\ openOrders' = Closed({requests[r].sig.openOrder}, "completed")
        BY <3>1 DEF CompleteOpenOrder
      <4>. QED BY <1>0, <4>1, ClosedFacts DEF PoolTypeOK, OpenRow
    <3>3. HoldInv => PoolKept
      BY <1>0, <3>1, PoolCompletes
    <3>. QED BY <1>0, <1>2, <2>1, <3>1, <3>2, <3>3
  <2>3. CASE Cancel(r)
    <3>1. /\ {requests[r].openOrder} \in SUBSET OpenOrder /\ UNCHANGED crossed
          /\ numbers' = Released(numbers, {requests[r].openOrder})
          /\ openOrders' = Closed({requests[r].openOrder}, "cancelled")
      BY <2>3, RequestFacts DEF Cancel, CancelOpenOrder, At
    <3>2. PoolTypeOK'
      BY <1>0, <3>1, ClosedFacts, ReleasedFacts DEF PoolTypeOK, NumberRow, OpenRow
    <3>3. HoldInv => PoolKept
      BY <1>0, <3>1, PoolReleases
    <3>. QED BY <1>0, <1>2, <2>1, <3>1, <3>2, <3>3
  <2>4. CASE CancelCommit(r)
    <3>1. /\ requests[r].at = "cancelling" /\ requests[r].openOrder \in OpenOrder
          /\ CancelUnheld(requests[r].openOrder) /\ UNCHANGED crossed
      BY <2>4, RequestFacts DEF CancelCommit, At
    <3>2. PoolTypeOK'
      <4>1. /\ {requests[r].openOrder} \in SUBSET OpenOrder /\ UNCHANGED numbers
            /\ openOrders' = Closed({requests[r].openOrder}, "cancelled")
        BY <3>1 DEF CancelUnheld
      <4>. QED BY <1>0, <4>1, ClosedFacts DEF PoolTypeOK, OpenRow
    <3>3. HoldInv /\ CrossInv => PoolKept
      <4>1. CrossInv => \A n \in Number : Soft(n) /\ numbers[n].for = requests[r].openOrder
                                           => requests[r].openOrder \in crossed
        BY <3>1 DEF CrossInv
      <4>. QED BY <1>0, <3>1, <4>1, PoolCompletes
    <3>. QED BY <1>0, <1>2, <2>1, <3>1, <3>2, <3>3
  <2>5. CASE OpenOrderAnswered(r)
    BY <1>1, <2>5
  <2>. QED BY <2>2, <2>3, <2>4, <2>5
<1>. QED BY <1>1, <1>3 DEF Close, Cancel, CancelCommit

LEMMA SweepFacts ==
  ASSUME TypeInv, Sweep \/ Advance
  PROVE  /\ UNCHANGED <<store, requests, people, orders, hosted, faults, crossed, numbering>>
         /\ PoolTypeOK' /\ (HoldInv => PoolKept)
<1>0. UNCHANGED <<store, requests, people, orders, hosted, faults, crossed, numbering>> /\ PoolTypeOK
  BY TypeParts DEF TypeInv, Sweep, Advance, Others, portal
<1>1. CASE Sweep
  <2>1. /\ Expired \in SUBSET OpenOrder /\ UNCHANGED clock
        /\ numbers' = Released(numbers, Expired) /\ openOrders' = Closed(Expired, "expired")
    BY <1>1 DEF Sweep, SweepExpired, Expired
  <2>2. PoolTypeOK'
    BY <1>0, <2>1, ClosedFacts, ReleasedFacts DEF PoolTypeOK, NumberRow, OpenRow
  <2>. QED BY <1>0, <2>1, <2>2, PoolReleases
<1>2. CASE Advance
  <2>1. UNCHANGED <<numbers, openOrders>> /\ clock < MaxTime /\ clock' = clock + 1
    BY <1>2 DEF Advance, Tick
  <2>2. clock' \in 1 .. MaxTime
    BY <1>0, <2>1, PoolAssumption DEF PoolTypeOK
  <2>3. PoolTypeOK'
    BY <1>0, <2>1, <2>2 DEF PoolTypeOK
  <2>. QED BY <1>0, <2>1, <2>3, PoolSame
<1>. QED BY <1>1, <1>2


-----------------------------------------------------------------------------
(* What becomes of customers and orders. *)

CustomerRow == [status : {"none", "active", "gone"}, owner : Owner \union {None},
                verified : BOOLEAN, card : BOOLEAN]
OrderRow == [state : {"none", "created", "submitted", "reserved", "charging", "retried", "completed",
                      "terminated", "failed", "parked"},
             customer : Customer \union {None}, number : Number \union {None}]

(* An attestation is not taken back while its customer is there, as the one of an order is. *)
CustomersKept ==
    \A c \in Customer :
        /\ Attested(c) => Attested(c)'
        /\ customers[c].verified /\ (\E o \in Order : orders[o].customer = c) => customers'[c].verified
        /\ customers'[c].verified => customers'[c].status = "active"

LEMMA CustomerWritten ==
  ASSUME TypeInv, NEW c \in Customer, NEW row \in CustomerRow, customers' = [customers EXCEPT ![c] = row]
  PROVE  /\ customers' \in [Customer -> CustomerRow] /\ customers'[c] = row
         /\ \A d \in Customer \ {c} : customers'[d] = customers[d]
         /\ /\ KycInv
            /\ customers[c].verified => row.verified \/ \A o \in Order : orders[o].customer # c
            /\ Attested(c) => row.verified \/ row.status = "gone"
            /\ row.verified => row.status = "active"
            => CustomersKept
<1>1. customers \in [Customer -> CustomerRow]
  BY DEF TypeInv, TypeOK, CustomerRow
<1>2. /\ customers' \in [Customer -> CustomerRow] /\ customers'[c] = row
      /\ \A d \in Customer \ {c} : customers'[d] = customers[d]
  BY <1>1
<1>. QED BY <1>2 DEF CustomersKept, KycInv, Attested

LEMMA CustomerFacts ==
  ASSUME TypeInv, NEW r \in Request, CreateCustomer(r) \/ Bind(r) \/ Attest(r) \/ AddCard(r)
  PROVE  /\ PortalStep(r) /\ UNCHANGED <<pool, store, orders, hosted, faults, crossed, numbering>>
         /\ PeopleOK'
         /\ KycInv => CustomersKept /\ CopyPassed(requests[r])'
<1> DEFINE sig == requests[r].sig
           c == sig.customer
<1>0. /\ UNCHANGED <<pool, store, orders, hosted, faults, crossed, numbering>> /\ PeopleOK
      /\ requests[r].at \in {"create", "bind", "attest", "card"} /\ requests[r].at \in Call
      /\ sig \in SignupSession
  BY RequestFacts, TypeParts DEF TypeInv, CreateCustomer, Bind, Attest, AddCard, At, Call, CopyFilled
<1>1. KycInv => /\ Passed(sig) /\ (UNCHANGED customers => CustomersKept)
  BY <1>0 DEF KycInv, CopyPassed, CustomersKept, Attested
<1>2. CASE Fail(r) /\ UNCHANGED <<customers, link, decision>>
  <2>1. PortalStep(r) /\ CopyPassed(requests'[r]) /\ requests'[r].at = "write"
    BY <1>0, <1>2, FailFacts
  <2>2. CopyPassed(requests[r])'
    <3>1. requests'[r].sig = Failed
      BY <1>0, <1>2, RowConcludes DEF Fail
    <3>. QED BY <2>1, <3>1, FailedFacts DEF CopyPassed, Passed
  <2>. QED BY <1>0, <1>1, <1>2, <2>1, <2>2 DEF PeopleOK
<1>3. ASSUME NEW d \in Customer, customers[d].status = "none", UNCHANGED <<link, decision>>,
             customers' = [customers EXCEPT ![d] =
                 [status |-> "active", owner |-> sig.owner, verified |-> FALSE, card |-> FALSE]],
             requests[r].at = "create", Proceed(r, "bind", [sig EXCEPT !.customer = d])
      PROVE  PortalStep(r) /\ PeopleOK' /\ (KycInv => CustomersKept /\ CopyPassed(requests[r])')
  <2> DEFINE row == [status |-> "active", owner |-> sig.owner, verified |-> FALSE, card |-> FALSE]
             next == [sig EXCEPT !.customer = d]
  <2>1. row \in CustomerRow /\ row.verified = FALSE
    BY <1>0 DEF SignupSession, CustomerRow
  <2>2. customers' = [customers EXCEPT ![d] = row]
    BY <1>3
  <2>3. next \in SignupSession /\ next.step = sig.step /\ next.customer = d
    BY <1>0, SessionNamed
  <2> HIDE DEF row, next
  <2>4. customers' \in [Customer -> CustomerRow]
    BY <2>1, <2>2, CustomerWritten
  <2>5. KycInv => CustomersKept
    <3>1. KycInv => ~ Attested(d) /\ ~ customers[d].verified
      BY <1>3 DEF KycInv, Attested
    <3>. QED BY <2>1, <2>2, <3>1, CustomerWritten
  <2>6. PortalStep(r) /\ requests'[r].at = "bind" /\ requests'[r].sig = next
    <3>1. Proceed(r, "bind", next) /\ "bind" \in Call \ {"close", "write"}
          /\ "bind" \notin {"lookup", "submit"}
      BY <1>3 DEF next, Call
    <3>. QED BY <1>0, <2>3, <3>1, RowProceeds DEF PortalStep
  <2>7. KycInv => CopyPassed(requests[r])'
    <3>1. KycInv => sig.step = "customer"
      BY <1>3 DEF KycInv, CopyPassed
    <3>. QED BY <2>3, <2>6, <3>1 DEF CopyPassed, Passed
  <2>. QED BY <1>0, <1>3, <2>4, <2>5, <2>6, <2>7 DEF PeopleOK, CustomerRow
<1>4. CASE Bind(r)
  <2> DEFINE next == [sig EXCEPT !.step = "kyc"]
  <2>1. next \in SignupSession /\ next.step = "kyc" /\ next.customer = c
    BY <1>0, SessionMoves DEF Steps
  <2> HIDE DEF next
  <2>2. Conclude(r, next) /\ requests[r].at = "bind" /\ UNCHANGED <<customers, decision>>
    BY <1>4 DEF Bind, Sig, next, At
  <2>3. PortalStep(r) /\ requests'[r].at = "write" /\ requests'[r].sig = next
    BY <1>0, <2>1, <2>2, RowConcludes DEF PortalStep
  <2>4. KycInv => CopyPassed(requests[r])'
    <3>1. KycInv => c \in Customer
      BY <2>2 DEF KycInv, CopyPassed
    <3>. QED BY <2>1, <2>3, <3>1 DEF CopyPassed, Passed
  <2>5. link' \in [Owner -> Customer \union {None}]
    <3>1. c \in Customer \union {None}
      BY <1>0 DEF SignupSession
    <3>. QED BY <1>0, <1>4, <3>1 DEF Bind, Sig, PeopleOK
  <2>. QED BY <1>0, <1>1, <2>2, <2>3, <2>4, <2>5 DEF PeopleOK
<1>5. ASSUME NEW step \in {"cof", "order"}, Conclude(r, [sig EXCEPT !.step = step]),
             UNCHANGED <<link, decision>>,
             \/ /\ step = "cof" /\ requests[r].at = "attest" /\ Verifiable(c)
                /\ customers' = [customers EXCEPT ![c].verified = TRUE]
             \/ /\ step = "order" /\ requests[r].at = "card" /\ customers[c].status = "active"
                /\ customers' = [customers EXCEPT ![c].card = TRUE]
      PROVE  PortalStep(r) /\ PeopleOK' /\ (KycInv => CustomersKept /\ CopyPassed(requests[r])')
  <2> DEFINE next == [sig EXCEPT !.step = step]
             row == IF step = "cof" THEN [customers[c] EXCEPT !.verified = TRUE]
                                    ELSE [customers[c] EXCEPT !.card = TRUE]
  <2>0. step \in Steps
    BY DEF Steps
  <2>1. next \in SignupSession /\ next.step = step /\ next.customer = c
    <3> HIDE DEF sig
    <3>. QED BY <1>0, <2>0, SessionMoves
  <2> HIDE DEF next
  <2>2. Conclude(r, next)
    BY <1>5 DEF next
  <2>3. PortalStep(r) /\ requests'[r].at = "write" /\ requests'[r].sig = next
    BY <1>0, <2>1, <2>2, RowConcludes DEF PortalStep
  <2>4. c \in Customer \union {None} /\ None \notin Customer
    BY <1>0, SignupAssumption DEF SignupSession
  <2>5. CASE c \in Customer
    <3>1. customers[c] \in CustomerRow /\ customers \in [Customer -> CustomerRow]
      BY <1>0, <2>5 DEF PeopleOK, CustomerRow
    <3>2. /\ row \in CustomerRow /\ row.status = customers[c].status
          /\ (customers[c].verified => row.verified) /\ (step = "cof" => row.verified)
      BY <3>1 DEF CustomerRow
    <3>3. customers' = [customers EXCEPT ![c] = row] /\ customers[c].status = "active"
      BY <1>5 DEF Verifiable
    <3> HIDE DEF row
    <3>4. customers' \in [Customer -> CustomerRow] /\ customers'[c] = row
      BY <2>5, <3>2, <3>3, CustomerWritten
    <3>5. KycInv => CustomersKept
      <4>1. /\ customers[c].verified => row.verified \/ \A o \in Order : orders[o].customer # c
            /\ Attested(c) => row.verified \/ row.status = "gone"
            /\ row.verified => row.status = "active"
        BY <3>2, <3>3 DEF Attested
      <4> HIDE DEF c
      <4>. QED BY <2>5, <3>2, <3>3, <4>1, CustomerWritten
    <3>6. KycInv => customers'[c].verified
      <4>1. KycInv /\ step = "order" => customers[c].verified
        BY <1>1, <1>5, <3>3 DEF KycInv, CopyPassed, Passed, Attested
      <4>. QED BY <1>5, <3>2, <3>4, <4>1
    <3>7. KycInv => CopyPassed(requests[r])'
      BY <1>5, <2>1, <2>3, <2>5, <3>6 DEF CopyPassed, Passed, Attested
    <3>. QED BY <1>0, <1>5, <2>3, <3>4, <3>5, <3>7 DEF PeopleOK, CustomerRow
  <2>6. CASE c = None
    <3>1. customers' = customers
      BY <1>0, <1>5, <2>4, <2>6 DEF PeopleOK
    <3>2. ~ KycInv
      BY <1>0, <1>1, <1>5, <2>4, <2>6 DEF KycInv, CopyPassed, Passed, Attested
    <3>. QED BY <1>0, <1>5, <2>3, <3>1, <3>2 DEF PeopleOK
  <2>. QED BY <2>4, <2>5, <2>6
<1>6. CASE CreateCustomer(r)
  BY <1>0, <1>2, <1>3, <1>6 DEF CreateCustomer, Sig, At, IsNext, people
<1>7. CASE Attest(r)
  BY <1>0, <1>2, <1>5, <1>7 DEF Attest, Sig, At
<1>8. CASE AddCard(r)
  BY <1>0, <1>2, <1>5, <1>8 DEF AddCard, Sig, At
<1>. QED BY <1>0, <1>4, <1>6, <1>7, <1>8

(* The provider, the login and the operator. *)
LEMMA OutsideFacts ==
  ASSUME TypeInv,
         \/ \E s \in Session : KycWebhook(s)
         \/ \E w \in Owner : Login(w)
         \/ \E c \in Customer : DeleteCustomer(c)
  PROVE  /\ UNCHANGED <<pool, store, requests, orders, hosted, crossed, numbering>>
         /\ Counted
         /\ PeopleOK' /\ (KycInv => CustomersKept)
<1>0. /\ UNCHANGED <<pool, store, requests, orders, hosted, crossed, numbering>> /\ Counted /\ PeopleOK
  BY TypeParts DEF TypeInv, KycWebhook, Login, DeleteCustomer, portal, Counted
<1>1. CASE UNCHANGED customers
  <2>1. KycInv => CustomersKept
    BY <1>1 DEF KycInv, CustomersKept, Attested
  <2>2. PeopleOK'
    BY <1>0, <1>1 DEF KycWebhook, Login, DeleteCustomer, PeopleOK
  <2>. QED BY <1>0, <2>1, <2>2
<1>2. ASSUME NEW c \in Customer, DeleteCustomer(c)
      PROVE  PeopleOK' /\ (KycInv => CustomersKept)
  <2> DEFINE row == [Nobody EXCEPT !.status = "gone"]
  <2>1. row \in CustomerRow /\ row.verified = FALSE /\ row.status = "gone"
    BY DEF Nobody, CustomerRow
  <2>2. /\ customers' = [customers EXCEPT ![c] = row] /\ UNCHANGED <<link, decision>>
        /\ \A o \in Order : orders[o].customer # c
    BY <1>2 DEF DeleteCustomer
  <2> HIDE DEF row
  <2>3. customers' \in [Customer -> CustomerRow]
    BY <2>1, <2>2, CustomerWritten
  <2>4. KycInv => CustomersKept
    BY <2>1, <2>2, CustomerWritten
  <2>. QED BY <1>0, <2>2, <2>3, <2>4 DEF PeopleOK, CustomerRow
<1>. QED BY <1>0, <1>1, <1>2 DEF KycWebhook, Login


LEMMA OrderMoves ==
  ASSUME TypeInv, NEW o \in Order, orders[o].state # "none",
         NEW state \in {"submitted", "reserved", "charging", "retried", "completed", "terminated",
                        "failed", "parked"},
         orders' = [orders EXCEPT ![o].state = state]
  PROVE  /\ OrdersOK' /\ Numbered'
         /\ orders'[o].state = state /\ orders'[o].number = orders[o].number
         /\ orders'[o].customer = orders[o].customer
         /\ \A p \in Order \ {o} : orders'[p] = orders[p]
<1> DEFINE row == [orders[o] EXCEPT !.state = state]
<1>1. orders \in [Order -> OrderRow] /\ orders[o] \in OrderRow
  BY TypeParts DEF TypeInv, OrdersOK, OrderRow
<1>2. /\ row \in OrderRow /\ row.state = state
      /\ row.number = orders[o].number /\ row.customer = orders[o].customer
  BY <1>1 DEF OrderRow
<1>3. orders' = [orders EXCEPT ![o] = row]
  OBVIOUS
<1> HIDE DEF row
<1>4. /\ orders' \in [Order -> OrderRow] /\ orders'[o] = row
      /\ \A p \in Order \ {o} : orders'[p] = orders[p]
  BY <1>1, <1>2, <1>3
<1>. QED BY <1>2, <1>4 DEF OrdersOK, OrderRow, Numbered, TypeInv

LEMMA OrdersNamed ==
  ASSUME TypeInv
  PROVE  \A q \in Request : /\ requests[q].at = "submit" => requests[q].sig.order \in Order
                            /\ requests[q].at \in {"release", "terminate"} => requests[q].order \in Order
  BY RequestFacts DEF TypeInv, Placed

(* What a request that places an order leaves behind. *)
Placing(r) ==
    /\ requests' \in [Request -> Row] /\ \A q \in Request : CopyFilled(requests'[q])
    /\ \A q \in Request \ {r} : requests'[q] = requests[q]
    /\ requests'[r].at \in {"submit", "write"}
    /\ OrdersOK' /\ Placed' /\ Numbered'
    /\ \A p \in Order : orders'[p] = orders[p] \/ orders'[p].state \in {"created", "submitted"}
    /\ KycInv => /\ CopyPassed(requests'[r])
                 /\ \A p \in Order : orders'[p].state # "none" =>
                       orders'[p].customer \in Customer /\ customers[orders'[p].customer].verified

LEMMA PlacingFacts ==
  ASSUME TypeInv, NEW r \in Request, CreateOrder(r) \/ SubmitOrder(r)
  PROVE  Placing(r) /\ UNCHANGED <<pool, store, people, hosted, faults, crossed, numbering>>
<1> DEFINE sig == requests[r].sig
           c == sig.customer
<1>0. /\ UNCHANGED <<pool, store, people, hosted, faults, crossed, numbering>>
      /\ requests[r].at \in {"order", "submit"} /\ requests[r].at \in Call /\ sig \in SignupSession
      /\ KycInv => sig.step = "order" /\ Passed(sig)
  BY RequestFacts DEF TypeInv, CreateOrder, SubmitOrder, At, Call, CopyFilled, KycInv, CopyPassed
<1>1. CASE Fail(r) /\ UNCHANGED orders
  <2>1. PortalStep(r) /\ CopyPassed(requests'[r]) /\ requests'[r].at = "write"
    BY <1>0, <1>1, FailFacts
  <2>2. OrdersOK' /\ Numbered'
    BY <1>1, SameTypes
  <2>3. Placed'
    BY <1>1, <2>1, PlacedKept
  <2>. QED BY <1>0, <1>1, <2>1, <2>2, <2>3 DEF Placing, PortalStep, KycInv
<1>2. ASSUME NEW o \in Order, orders[o].state = "none",
             customers[c].status = "active", Proceed(r, "submit", [sig EXCEPT !.order = o]),
             orders' = [orders EXCEPT ![o] = [state |-> "created", customer |-> c, number |-> sig.number]],
             requests[r].at = "order"
      PROVE  Placing(r)
  <2> DEFINE row == [state |-> "created", customer |-> c, number |-> sig.number]
             next == [sig EXCEPT !.order = o]
  <2>1. row \in OrderRow /\ row.state = "created" /\ row.number \in Number /\ row.customer = c
    BY <1>0 DEF SignupSession, OrderRow
  <2>2. orders' = [orders EXCEPT ![o] = row] /\ orders \in [Order -> OrderRow]
    BY <1>2, TypeParts DEF TypeInv, OrdersOK, OrderRow
  <2>3. /\ next \in SignupSession /\ next.step = sig.step /\ next.customer = c /\ next.order = o
    BY <1>0 DEF SignupSession
  <2> HIDE DEF row, next
  <2>4. /\ orders' \in [Order -> OrderRow] /\ orders'[o] = row
        /\ \A p \in Order \ {o} : orders'[p] = orders[p]
    BY <2>1, <2>2
  <2>5. /\ requests' \in [Request -> Row] /\ \A q \in Request : CopyFilled(requests'[q])
        /\ \A q \in Request \ {r} : requests'[q] = requests[q]
        /\ requests'[r].at = "submit" /\ requests'[r].sig = next
    <3>1. Proceed(r, "submit", next) /\ "submit" \in Call \ {"close", "write"} /\ "submit" # "lookup"
      BY <1>2 DEF next, Call
    <3>. QED BY <1>0, <2>3, <3>1, RowProceeds
  <2>6. KycInv => CopyPassed(requests'[r]) /\ c \in Customer /\ customers[c].verified
    BY <1>0, <1>2, <2>3, <2>5 DEF CopyPassed, Passed, Attested
  <2>7. Placed' /\ Numbered'
    BY <1>2, <2>1, <2>3, <2>4, <2>5 DEF Placed, Numbered, TypeInv
  <2>8. OrdersOK'
    BY <2>4 DEF OrdersOK, OrderRow
  <2>. QED BY <2>1, <2>4, <2>5, <2>6, <2>7, <2>8 DEF Placing, KycInv
<1>3. ASSUME orders' = [orders EXCEPT ![sig.order].state = "submitted"], requests[r].at = "submit",
             Conclude(r, [sig EXCEPT !.step = "activation"])
      PROVE  Placing(r)
  <2> DEFINE next == [sig EXCEPT !.step = "activation"]
             o == sig.order
  <2>1. next \in SignupSession /\ next.step = "activation" /\ next.customer = c
    BY <1>0, SessionMoves DEF Steps
  <2>2. o \in Order /\ orders[o].state # "none"
    BY <1>3 DEF TypeInv, Placed
  <2> HIDE DEF next, o
  <2>3. /\ OrdersOK' /\ Numbered'
        /\ orders'[o].state = "submitted" /\ orders'[o].customer = orders[o].customer
        /\ \A p \in Order \ {o} : orders'[p] = orders[p]
    BY <1>3, <2>2, OrderMoves DEF o
  <2>4. PortalStep(r) /\ requests'[r].at = "write" /\ requests'[r].sig = next
    <3>1. Conclude(r, next)
      BY <1>3 DEF next
    <3>. QED BY <1>0, <2>1, <3>1, RowConcludes DEF PortalStep
  <2>5. KycInv => CopyPassed(requests'[r])
    BY <1>0, <2>1, <2>4 DEF CopyPassed, Passed
  <2>6. Placed'
    BY <2>2, <2>3, <2>4, OrdersNamed DEF Placed, PortalStep, TypeInv
  <2>7. KycInv => \A p \in Order : orders'[p].state # "none" =>
                     orders'[p].customer \in Customer /\ customers[orders'[p].customer].verified
    BY <2>2, <2>3 DEF KycInv
  <2>. QED BY <2>3, <2>4, <2>5, <2>6, <2>7 DEF Placing, PortalStep
<1>4. CASE CreateOrder(r)
  BY <1>0, <1>1, <1>2, <1>4 DEF CreateOrder, Sig, At, IsNext
<1>5. CASE SubmitOrder(r)
  BY <1>0, <1>1, <1>3, <1>5 DEF SubmitOrder, Sig, At
<1>. QED BY <1>4, <1>5

(* Provisioning, activation and termination: what they write besides the number. *)
Ends(q) ==
    \/ requests'[q] = requests[q]
    \/ requests'[q] = Idle
    \/ /\ requests[q].at = "release" /\ requests'[q].at = "terminate"
       /\ requests'[q].order = requests[q].order

LEMMA TerminatingRows ==
  ASSUME TypeInv, NEW r \in Request, TerminateRelease(r) \/ TerminateCommit(r)
  PROVE  /\ requests' \in [Request -> Row] /\ \A q \in Request : CopyFilled(requests'[q]) /\ Ends(q)
         /\ requests[r].order \in Order /\ orders[requests[r].order].state # "none"
<1>0. /\ requests[r].at \in {"release", "terminate"} /\ requests[r] \in Terminating
      /\ requests[r].order \in Order /\ orders[requests[r].order].state # "none"
  BY RequestFacts DEF TerminateRelease, TerminateCommit, At, TypeInv, Placed
<1>1. CASE TerminateRelease(r)
  <2> DEFINE row == [requests[r] EXCEPT !.at = "terminate"]
  <2>1. row \in Terminating /\ row.at = "terminate" /\ row.order = requests[r].order
    BY <1>0 DEF Terminating
  <2>2. requests' = [requests EXCEPT ![r] = row] /\ requests[r].at = "release"
    BY <1>1 DEF TerminateRelease, At, TypeInv, TypeOK
  <2> HIDE DEF row
  <2>3. row \in Row /\ CopyFilled(row)
    BY <2>1 DEF Row, CopyFilled, Call
  <2>. QED BY <1>0, <2>1, <2>2, <2>3, RowWritten DEF Ends
<1>2. CASE TerminateCommit(r)
  BY <1>0, <1>2, RowEnds DEF TerminateCommit, Ends
<1>. QED BY <1>1, <1>2

OrderFollows(o) ==
    /\ orders[o].state # "none"
    /\ orders'[o].state # "none"
    /\ orders'[o].number = orders[o].number /\ orders'[o].customer = orders[o].customer
    /\ \A p \in Order \ {o} : orders'[p] = orders[p]

NumberCalled(n) == UNCHANGED numbers \/ ReserveNext(n) \/ AssignMsisdn(n) \/ ReleaseMsisdn(n)

OrderWrites(o) ==
    /\ UNCHANGED <<openOrders, clock, store, people, hosted, crossed>>
    /\ NumberCalled(orders[o].number) /\ Counted
    /\ given' \in {given, given \union {o}}
    /\ \/ astray' = astray
       \/ astray' = (astray \/ o \in given)
       \/ astray' = (astray \/ (o \in given /\ Taken(orders[o].number)))

LEMMA OrderStepFacts ==
  ASSUME TypeInv, NEW o \in Order, OrderStep(o)
  PROVE  /\ UNCHANGED <<openOrders, clock, store, people, hosted, crossed>>
         /\ requests' \in [Request -> Row] /\ \A q \in Request : CopyFilled(requests'[q]) /\ Ends(q)
         /\ BoundsOK' /\ OrdersOK' /\ Placed' /\ Numbered'
         /\ OrderFollows(o) /\ orders[o].number \in Number /\ given \subseteq given'
         /\ PoolTypeOK' /\ (HoldInv => HoldInv' /\ Grown)
         /\ \A n \in Number \ {orders[o].number} : numbers'[n] = numbers[n]
<1>0. PoolTypeOK /\ BoundsOK /\ OrdersOK /\ Numbered /\ Placed /\ requests \in [Request -> Row]
      /\ \A q \in Request : CopyFilled(requests[q])
  BY TypeParts DEF TypeInv, PortalOK
<1>1. OrderWrites(o)
  <2>1. CASE Fulfil(o)
    <3>1. CASE Provision(o) \/ NoNumber(o)
      BY <3>1 DEF OrderWrites, Provision, NoNumber, Becomes, Unfulfilled, KeepNumber, numbering, NumberCalled, Counted
    <3>2. CASE DecompositionFails(o)
      BY <3>2 DEF OrderWrites, DecompositionFails, Becomes, Unfulfilled, KeepNumber, numbering, NumberCalled, Counted
    <3>3. CASE ServiceFails(o)
      <4>1. Counted
        BY <3>3 DEF ServiceFails, Counted
      <4>. QED BY <3>3, <4>1 DEF OrderWrites, ServiceFails, GiveBack, Becomes, Unfulfilled, KeepNumber, numbering, NumberCalled
    <3>4. CASE StartActivation(o) \/ Park(o)
      BY <3>4 DEF OrderWrites, StartActivation, Park, Becomes, Unfulfilled, KeepNumber, numbering, NumberCalled, Counted
    <3>5. CASE Activate(o)
      BY <3>5 DEF OrderWrites, Activate, Becomes, Unfulfilled, NumberCalled, Counted
    <3>6. CASE ActivationDeclined(o)
      BY <3>6 DEF OrderWrites, ActivationDeclined, GiveBack, Becomes, Unfulfilled, KeepNumber, numbering, NumberCalled, Counted
    <3>. QED BY <2>1, <3>1, <3>2, <3>3, <3>4, <3>5, <3>6 DEF Fulfil
  <2>2. ASSUME NEW r \in Request, TerminateRelease(r) \/ TerminateCommit(r), requests[r].order = o
        PROVE  OrderWrites(o)
    BY <2>2 DEF OrderWrites, TerminateRelease, TerminateCommit, GiveBack, Unfulfilled, KeepNumber, numbering,
                NumberCalled, Counted
  <2>. QED BY <2>1, <2>2 DEF OrderStep
<1> USE DEF OrderWrites
<1>2. BoundsOK'
  <2>1. astray' \in BOOLEAN
    BY <1>0, <1>1 DEF BoundsOK
  <2>2. faults' \in 0 .. MaxFaults
    BY <1>0, <1>1, SignupAssumption DEF BoundsOK, Counted, Fault
  <2>. QED BY <1>0, <1>1, <2>1, <2>2 DEF BoundsOK
<1>3. /\ requests' \in [Request -> Row] /\ \A q \in Request : CopyFilled(requests'[q]) /\ Ends(q)
      /\ OrderFollows(o) /\ OrdersOK' /\ Numbered'
  <2>1. CASE Fulfil(o)
    <3>1. /\ UNCHANGED requests /\ orders[o].state # "none"
          /\ \E state \in {"submitted", "reserved", "charging", "retried", "completed", "failed", "parked"} :
                orders' = [orders EXCEPT ![o].state = state]
      BY <2>1 DEF Fulfil, Provision, NoNumber, DecompositionFails, ServiceFails, StartActivation, Activate,
                  ActivationDeclined, Park, Becomes
    <3>. QED BY <1>0, <3>1, OrderMoves DEF OrderFollows, Ends
  <2>2. ASSUME NEW r \in Request, TerminateRelease(r), requests[r].order = o
        PROVE  OrderFollows(o) /\ OrdersOK' /\ Numbered'
    <3>1. UNCHANGED orders /\ requests[r].at = "release"
      BY <2>2 DEF TerminateRelease, At
    <3>2. orders[o].state # "none"
      BY <2>2, TerminatingRows
    <3>. QED BY <1>0, <3>1, <3>2, SameTypes DEF OrderFollows
  <2>3. ASSUME NEW r \in Request, TerminateCommit(r), requests[r].order = o
        PROVE  OrderFollows(o) /\ OrdersOK' /\ Numbered'
    <3>1. orders' = [orders EXCEPT ![o].state = "terminated"] /\ orders[o].state # "none"
      BY <2>3, TerminatingRows DEF TerminateCommit
    <3>. QED BY <3>1, OrderMoves DEF OrderFollows
  <2>. QED BY <2>1, <2>2, <2>3, TerminatingRows DEF OrderStep
<1>4. Placed'
  BY <1>0, <1>3, OrdersNamed DEF Placed, OrderFollows, Ends, Idle
<1>5. orders[o].number \in Number
  BY <1>0, <1>3 DEF OrderFollows, Numbered
<1>6. PoolTypeOK' /\ (HoldInv => HoldInv' /\ Grown)
      /\ \A n \in Number \ {orders[o].number} : numbers'[n] = numbers[n]
  <2>1. CASE UNCHANGED numbers
    BY <1>0, <1>1, <2>1, PoolSame DEF PoolTypeOK, PoolKept
  <2>2. CASE ReserveNext(orders[o].number) \/ AssignMsisdn(orders[o].number) \/ ReleaseMsisdn(orders[o].number)
    <3>1. NumberWritten(orders[o].number)
      BY <1>0, <1>5, <2>2, ReserveFacts, AssignFacts, ReleaseFacts
    <3>2. PoolTypeOK'
      BY <1>0, <1>1, <3>1 DEF NumberWritten, PoolTypeOK, NumberRow
    <3>3. HoldInv => HoldInv' /\ Grown
      BY <1>0, <1>1, <1>5, <2>2, PoolOrders
    <3>. QED BY <3>1, <3>2, <3>3 DEF NumberWritten
  <2>. QED BY <1>1, <2>1, <2>2 DEF NumberCalled
<1>. QED BY <1>1, <1>2, <1>3, <1>4, <1>5, <1>6


-----------------------------------------------------------------------------
(* Type correctness. *)

LEMMA TypeInit == Init => TypeInv
<1> SUFFICES ASSUME Init PROVE TypeInv
  OBVIOUS
<1>1. PoolTypeOK
  <2>1. Free \in NumberRow /\ Unused \in OpenRow
    BY Windows DEF Free, Unused, NumberRow, OpenRow
  <2>2. clock \in 1 .. MaxTime
    BY PoolAssumption DEF Init, PoolInit
  <2>. QED BY <2>1, <2>2, PoolParts DEF Init, PoolInit
<1>2. PortalOK
  BY DEF Init, PortalOK, Row
<1>3. PeopleOK
  BY DEF Init, PeopleOK, Nobody
<1>4. OrdersOK /\ Numbered
  BY DEF Init, OrdersOK, NoOrder, Numbered
<1>5. BoundsOK
  <2>1. faults \in 0 .. MaxFaults
    BY SignupAssumption DEF Init
  <2>2. astray \in BOOLEAN
    BY DEF Init
  <2>. QED BY <2>1, <2>2 DEF Init, BoundsOK
<1>6. \A r \in Request : requests[r].at = "idle"
  BY DEF Init, Idle
<1>7. Placed /\ \A r \in Request : CopyFilled(requests[r])
  BY <1>6 DEF Placed, CopyFilled, Call
<1>. QED BY <1>1, <1>2, <1>3, <1>4, <1>5, <1>7, TypeParts DEF TypeInv

LEMMA TypeNext == TypeInv /\ [Next]_vars => TypeInv'
<1> SUFFICES ASSUME TypeInv, [Next]_vars PROVE TypeInv'
  OBVIOUS
<1>1. ASSUME UNCHANGED <<requests, orders>> PROVE Placed'
  BY <1>1 DEF Placed, TypeInv
<1>2. CASE UNCHANGED vars
  <2>1. UNCHANGED <<pool, store, requests, people, orders, hosted, faults, crossed, numbering>>
    BY <1>2 DEF vars, portal
  <2>. QED BY <1>1, <2>1, SameTypes, TypeJoins DEF Counted
<1>3. ASSUME NEW r \in Request, OpenOrderAnswered(r) \/ Close(r) \/ Cancel(r) \/ CancelCommit(r)
      PROVE  TypeInv'
  BY <1>3, OpenOrderFacts, PlacedKept, SameTypes, TypeJoins DEF PortalStep
<1>4. ASSUME Sweep \/ Advance PROVE TypeInv'
  BY <1>1, <1>4, SweepFacts, SameTypes, TypeJoins DEF Counted
<1>5. ASSUME NEW r \in Request, NEW s \in Session, NEW w \in Owner, NEW n \in Number, Submit(r, s, w, n)
      PROVE  TypeInv'
  <2>1. /\ UNCHANGED <<pool, store, orders, hosted, faults, crossed, numbering>>
        /\ PortalStep(r) /\ PeopleOK'
    BY <1>5, SubmitFacts
  <2>. QED BY <2>1, PlacedKept, SameTypes, TypeJoins DEF PortalStep, Counted
<1>6. ASSUME NEW r \in Request, NEW s \in Session,
             \/ StepKyc(r, s) \/ KycPoll(r, s) \/ StepCof(r, s) \/ CheckoutInit(r, s)
             \/ CheckoutReturn(r, s) \/ StepOrder(r, s) \/ StepPoll(r, s)
      PROVE  TypeInv'
  <2>1. PortalStep(r) /\ UNCHANGED <<pool, store, people, orders, hosted, faults, crossed, numbering>>
    BY <1>6, StartFacts DEF OnlyRequests
  <2>. QED BY <2>1, PortalJoins DEF Counted
<1>7. ASSUME NEW r \in Request,
             ResumeCustomer(r) \/ DropGhost(r) \/ Abandon(r) \/ AttestationMissing(r)
      PROVE  TypeInv'
  BY <1>7, QuietFacts, PortalJoins
<1>8. ASSUME NEW r \in Request,
             \/ CancelUnmatched(r) \/ \E w \in Owner : CancelLookup(r, w)
             \/ \E o \in Order : TerminateRead(r, o)
      PROVE  TypeInv'
  <2>1. UNCHANGED <<pool, store, people, orders, hosted, faults, crossed, numbering>>
    BY <1>8, BeginFacts DEF OnlyRequests
  <2>. QED BY <1>8, <2>1, BeginFacts, SameTypes, TypeJoins DEF Counted
<1>9. ASSUME NEW r \in Request, Write(r) PROVE TypeInv'
  BY <1>9, WriteFacts, PlacedKept, SameTypes, TypeJoins DEF PortalStep, Counted
<1>10. ASSUME NEW s \in Session, LoseSession(s) PROVE TypeInv'
  <2>1. UNCHANGED <<pool, requests, people, orders, hosted, crossed, numbering>> /\ Counted
    BY <1>10 DEF LoseSession, Counted
  <2>2. store' \in [Session -> SignupSession \union {NoSession}]
    BY <1>10 DEF LoseSession, TypeInv, TypeOK
  <2>. QED BY <1>1, <2>1, <2>2, SameTypes, TypeJoins
<1>11. ASSUME NEW r \in Request, CreateCustomer(r) \/ Bind(r) \/ Attest(r) \/ AddCard(r) PROVE TypeInv'
  <2>1. /\ UNCHANGED <<pool, store, orders, hosted, faults, crossed, numbering>>
        /\ PortalStep(r) /\ PeopleOK'
    BY <1>11, CustomerFacts
  <2>. QED BY <2>1, PlacedKept, SameTypes, TypeJoins DEF PortalStep, Counted
<1>12. ASSUME \/ \E s \in Session : KycWebhook(s)
              \/ \E w \in Owner : Login(w)
              \/ \E c \in Customer : DeleteCustomer(c)
       PROVE  TypeInv'
  BY <1>1, <1>12, OutsideFacts, SameTypes, TypeJoins
<1>13. ASSUME NEW r \in Request, CreateOrder(r) \/ SubmitOrder(r) PROVE TypeInv'
  BY <1>13, PlacingFacts, SameTypes, TypeJoins DEF Placing, Counted
<1>14. ASSUME NEW o \in Order, OrderStep(o) PROVE TypeInv'
  BY <1>14, OrderStepFacts, SameTypes, TypeJoins
<1>15. CASE Next
  BY <1>3, <1>4, <1>5, <1>6, <1>7, <1>8, <1>9, <1>10, <1>11, <1>12, <1>13, <1>14, <1>15, NextCases
<1>. QED BY <1>2, <1>15

(* Types: the rows of the pool, the sessions and the copies of them that requests hold,  *)
(* customers and orders; the window of a hold is one the clock can give it               *)
(* (hold_msisdn, signup_submit).                                                         *)
THEOREM TypeCorrect == Spec => []TypeOK
<1>1. TypeInv => TypeOK
  BY DEF TypeInv
<1>. QED BY <1>1, TypeInit, TypeNext, PTL DEF Spec

-----------------------------------------------------------------------------
(* Holds. *)

LEMMA HoldInit == Init => HoldInv /\ CrossInv
<1> SUFFICES ASSUME Init PROVE HoldInv /\ CrossInv
  OBVIOUS
<1>1. \A n \in Number : ~ Soft(n)
  BY DEF Init, PoolInit, Free, Soft
<1>2. \A r \in Request : requests[r].at = "idle"
  BY DEF Init, Idle
<1>. QED BY <1>1, <1>2 DEF HoldInv, CrossInv

(* The steps of the portal leave the pool alone but for the open order's, the other *)
(* steps are those of orders.                                                       *)
PoolMoves ==
    /\ PoolKept /\ UNCHANGED numbering
    /\ \A o \in Order : orders'[o] = orders[o] \/ orders'[o].state \in {"created", "submitted"}

LEMMA PoolCases ==
  ASSUME TypeInv, HoldInv, CrossInv, [Next]_vars
  PROVE  /\ PoolMoves \/ \E o \in Order : OrderStep(o)
         /\ CrossInv'
<1>0. PoolTypeOK /\ \A q \in Request : requests[q].at \in {"cancel", "cancelling"} =>
                                            requests[q].openOrder \in OpenOrder
  BY TypeParts, RequestFacts DEF TypeInv
<1>1. UNCHANGED <<pool, crossed>> => PoolKept
  <2>1. UNCHANGED pool => PoolTypeOK'
    BY SameTypes
  <2>. QED BY <1>0, <2>1, PoolSame DEF pool
<1>2. ASSUME Grown, \A q \in Request : \/ requests'[q] = requests[q]
                                       \/ requests'[q].at \notin {"cancel", "cancelling"}
      PROVE  CrossInv'
  BY <1>0, <1>2, CrossKept
<1>3. ASSUME UNCHANGED <<pool, crossed, numbering, orders>>,
             \A q \in Request : \/ requests'[q] = requests[q]
                                \/ requests'[q].at \notin {"cancel", "cancelling"}
      PROVE  PoolMoves /\ CrossInv'
  BY <1>1, <1>2, <1>3 DEF PoolMoves, PoolKept
<1>4. CASE UNCHANGED vars
  BY <1>3, <1>4 DEF vars, portal
<1>5. ASSUME NEW r \in Request, PortalStep(r), UNCHANGED <<pool, crossed, numbering, orders>>
      PROVE  PoolMoves /\ CrossInv'
  BY <1>3, <1>5 DEF PortalStep
<1>6. ASSUME NEW r \in Request, OpenOrderAnswered(r) \/ Close(r) \/ Cancel(r) \/ CancelCommit(r)
      PROVE  PoolMoves /\ CrossInv'
  <2>1. PoolKept /\ PortalStep(r) /\ UNCHANGED <<orders, numbering>>
    BY <1>6, OpenOrderFacts
  <2>. QED BY <1>2, <2>1 DEF PoolMoves, PoolKept, PortalStep
<1>7. ASSUME Sweep \/ Advance PROVE PoolMoves /\ CrossInv'
  BY <1>2, <1>7, SweepFacts DEF PoolMoves, PoolKept
<1>8. ASSUME NEW r \in Request, NEW s \in Session, NEW w \in Owner, NEW n \in Number, Submit(r, s, w, n)
      PROVE  PoolMoves /\ CrossInv'
  BY <1>5, <1>8, SubmitFacts
<1>9. ASSUME NEW r \in Request, NEW s \in Session,
             \/ StepKyc(r, s) \/ KycPoll(r, s) \/ StepCof(r, s) \/ CheckoutInit(r, s)
             \/ CheckoutReturn(r, s) \/ StepOrder(r, s) \/ StepPoll(r, s)
      PROVE  PoolMoves /\ CrossInv'
  BY <1>5, <1>9, StartFacts DEF OnlyRequests
<1>10. ASSUME NEW r \in Request,
              ResumeCustomer(r) \/ DropGhost(r) \/ Abandon(r) \/ AttestationMissing(r)
       PROVE  PoolMoves /\ CrossInv'
  BY <1>5, <1>10, QuietFacts
<1>11. ASSUME NEW r \in Request,
              \/ CancelUnmatched(r) \/ \E w \in Owner : CancelLookup(r, w)
              \/ \E o \in Order : TerminateRead(r, o)
       PROVE  PoolMoves /\ CrossInv'
  <2>1. OnlyRequests /\ CrossInv'
    BY <1>11, BeginFacts
  <2>. QED BY <1>1, <2>1 DEF OnlyRequests, PoolMoves
<1>12. ASSUME NEW r \in Request, Write(r) \/ CreateCustomer(r) \/ Bind(r) \/ Attest(r) \/ AddCard(r)
       PROVE  PoolMoves /\ CrossInv'
  BY <1>5, <1>12, WriteFacts, CustomerFacts
<1>13. ASSUME \/ \E s \in Session : LoseSession(s) \/ KycWebhook(s)
              \/ \E w \in Owner : Login(w)
              \/ \E c \in Customer : DeleteCustomer(c)
       PROVE  PoolMoves /\ CrossInv'
  BY <1>3, <1>13, OutsideFacts DEF LoseSession
<1>14. ASSUME NEW r \in Request, CreateOrder(r) \/ SubmitOrder(r) PROVE PoolMoves /\ CrossInv'
  <2>1. Placing(r) /\ PoolKept /\ UNCHANGED numbering
    BY <1>1, <1>14, PlacingFacts
  <2>. QED BY <1>2, <2>1 DEF Placing, PoolMoves, PoolKept
<1>15. ASSUME NEW o \in Order, OrderStep(o) PROVE CrossInv'
  <2>1. Grown /\ \A q \in Request : Ends(q)
    BY <1>15, OrderStepFacts
  <2>. QED BY <1>2, <2>1 DEF Ends, Idle
<1>16. CASE Next
  BY <1>6, <1>7, <1>8, <1>9, <1>10, <1>11, <1>12, <1>13, <1>14, <1>15, <1>16, NextCases
<1>. QED BY <1>4, <1>16

LEMMA HoldNext == TypeInv /\ HoldInv /\ CrossInv /\ [Next]_vars => HoldInv' /\ CrossInv'
  BY PoolCases, OrderStepFacts DEF PoolMoves, PoolKept

(* No hold is lost to the sweep but two kinds of them: it is of an open order that is still *)
(* open, with the same window; of one that completed; or of one that was resumed after the  *)
(* first statement of its cancellation had found no hold to release and before the second   *)
(* set its status (hold_msisdn, set_open_order_state, cancel_open_order, sweep_expired).    *)
THEOREM HoldsAreFound == Spec => []HoldsInReach
<1>1. Init => TypeInv /\ HoldInv /\ CrossInv
  BY TypeInit, HoldInit
<1>2. TypeInv /\ HoldInv /\ CrossInv /\ [Next]_vars => (TypeInv /\ HoldInv /\ CrossInv)'
  BY TypeNext, HoldNext
<1>3. HoldInv => HoldsInReach
  BY DEF HoldInv, HoldsInReach
<1>. QED BY <1>1, <1>2, <1>3, PTL DEF Spec


-----------------------------------------------------------------------------
(* Numbers. *)

LEMMA PlacedInit == Init => PlacedOnce
<1> SUFFICES ASSUME Init PROVE PlacedOnce
  OBVIOUS
<1>1. \A r \in Request : requests[r].at = "idle"
  BY DEF Init, Idle
<1>2. given = {}
  BY DEF Init
<1>. QED BY <1>1, <1>2 DEF PlacedOnce

LEMMA PlacingSteps ==
  ASSUME TypeInv, PlacedOnce, NEW r \in Request, CreateOrder(r) \/ SubmitOrder(r)
  PROVE  /\ PlacedOnce'
         /\ \A p \in Order : \/ orders'[p] = orders[p]
                             \/ /\ orders[p].state \in {"none", "created"}
                                /\ orders'[p].state \in {"created", "submitted"}
<1> DEFINE sig == requests[r].sig
           Goal == /\ PlacedOnce'
                   /\ \A p \in Order : \/ orders'[p] = orders[p]
                                       \/ /\ orders[p].state \in {"none", "created"}
                                          /\ orders'[p].state \in {"created", "submitted"}
<1>0. /\ requests[r].at \in {"order", "submit"} /\ requests[r].at \in Call /\ sig \in SignupSession
      /\ orders \in [Order -> OrderRow] /\ UNCHANGED given
  BY RequestFacts, TypeParts
     DEF TypeInv, CreateOrder, SubmitOrder, At, Call, CopyFilled, OrdersOK, OrderRow, numbering
<1>1. CASE Fail(r) /\ UNCHANGED orders
  <2>1. requests'[r].at = "write" /\ \A q \in Request \ {r} : requests'[q] = requests[q]
    BY <1>0, <1>1, FailFacts DEF PortalStep
  <2>. QED BY <1>0, <1>1, <2>1 DEF PlacedOnce
<1>2. ASSUME NEW o \in Order, orders[o].state = "none", NEW row \in OrderRow, row.state = "created",
             Proceed(r, "submit", [sig EXCEPT !.order = o]), orders' = [orders EXCEPT ![o] = row]
      PROVE  Goal
  <2> DEFINE next == [sig EXCEPT !.order = o]
  <2>1. next \in SignupSession /\ next.order = o
    BY <1>0 DEF SignupSession
  <2> HIDE DEF next
  <2>2. /\ requests'[r].at = "submit" /\ requests'[r].sig = next
        /\ \A q \in Request \ {r} : requests'[q] = requests[q]
    <3>1. Proceed(r, "submit", next) /\ "submit" \in Call \ {"close", "write"} /\ "submit" # "lookup"
      BY <1>2 DEF next, Call
    <3>. QED BY <1>0, <2>1, <3>1, RowProceeds
  <2>3. orders'[o] = row /\ \A p \in Order \ {o} : orders'[p] = orders[p]
    BY <1>0, <1>2
  <2>4. \A q \in Request \ {r} : requests[q].at = "submit" => requests[q].sig.order # o
    BY <1>2 DEF PlacedOnce
  <2>5. PlacedOnce'
    BY <1>0, <1>2, <2>1, <2>2, <2>3, <2>4, OrdersNamed DEF PlacedOnce
  <2>. QED BY <1>2, <2>3, <2>5
<1>3. ASSUME orders' = [orders EXCEPT ![sig.order].state = "submitted"], requests[r].at = "submit",
             Conclude(r, [sig EXCEPT !.step = "activation"])
      PROVE  Goal
  <2> DEFINE next == [sig EXCEPT !.step = "activation"]
             o == sig.order
  <2>1. next \in SignupSession
    BY <1>0, SessionMoves DEF Steps
  <2>2. /\ o \in Order /\ orders[o].state = "created"
        /\ \A q \in Request \ {r} : requests[q].at = "submit" => requests[q].sig.order # o
    BY <1>0, <1>3, OrdersNamed DEF PlacedOnce
  <2> HIDE DEF next, o
  <2>3. orders'[o].state = "submitted" /\ \A p \in Order \ {o} : orders'[p] = orders[p]
    BY <1>3, <2>2, OrderMoves DEF o
  <2>4. requests'[r].at = "write" /\ \A q \in Request \ {r} : requests'[q] = requests[q]
    <3>1. Conclude(r, next)
      BY <1>3 DEF next
    <3>. QED BY <1>0, <2>1, <3>1, RowConcludes
  <2>5. PlacedOnce'
    BY <1>0, <2>2, <2>3, <2>4, OrdersNamed DEF PlacedOnce
  <2>. QED BY <2>2, <2>3, <2>5
<1>4. CASE CreateOrder(r)
  <2>1. CASE Fail(r) /\ UNCHANGED orders
    BY <1>1, <2>1
  <2>2. ASSUME NEW o \in Order, orders[o].state = "none",
               Proceed(r, "submit", [sig EXCEPT !.order = o]),
               orders' = [orders EXCEPT ![o] =
                            [state |-> "created", customer |-> sig.customer, number |-> sig.number]]
        PROVE  Goal
    <3> DEFINE row == [state |-> "created", customer |-> sig.customer, number |-> sig.number]
    <3>1. row \in OrderRow /\ row.state = "created"
      BY <1>0 DEF SignupSession, OrderRow
    <3> HIDE DEF row
    <3>2. orders' = [orders EXCEPT ![o] = row]
      BY <2>2 DEF row
    <3>. QED BY <1>2, <2>2, <3>1, <3>2
  <2>. QED BY <1>4, <2>1, <2>2 DEF CreateOrder, Sig, At, IsNext
<1>5. CASE SubmitOrder(r)
  BY <1>1, <1>3, <1>5 DEF SubmitOrder, Sig, At
<1>. QED BY <1>4, <1>5

(* What an order's step does with the number, as long as none goes astray: it reserves it,  *)
(* leaves it, gives it back, or assigns it.                                                 *)
Reserves(o) ==
    /\ orders[o].state = "submitted" /\ orders'[o].state = "reserved" /\ o \notin given'
    /\ ReserveNext(orders[o].number)
Leaves(o) ==
    /\ UNCHANGED numbers
    /\ Keeps(o)' => Keeps(o)
    /\ HoldsNumber(o)' => HoldsNumber(o)
Frees(o) ==
    /\ Keeps(o) /\ ~ Keeps(o)'
    /\ ReleaseMsisdn(orders[o].number)
Assigns(o) ==
    /\ HoldsNumber(o) /\ HoldsNumber(o)'
    /\ AssignMsisdn(orders[o].number)

StatesKept(o) ==
    /\ orders[o].state \in {"submitted", "reserved", "charging", "retried", "completed", "terminated"}
    /\ orders'[o].state \notin {"none", "created"}
    /\ orders'[o].state = "submitted" => o \notin given'
    /\ given' \subseteq given \union {o}
    /\ orders[o].state \in {"completed", "terminated"} => orders'[o].state \in {"completed", "terminated"}

LEMMA NumberMoves ==
  ASSUME TypeInv, PlacedOnce, NEW o \in Order, OrderStep(o)
  PROVE  /\ StatesKept(o)
         /\ ~ astray' => ~ astray /\ (Reserves(o) \/ Leaves(o) \/ Frees(o) \/ Assigns(o))
<1> DEFINE n == orders[o].number
           Goal == /\ StatesKept(o)
                   /\ ~ astray' => ~ astray /\ (Reserves(o) \/ Leaves(o) \/ Frees(o) \/ Assigns(o))
<1>0. /\ PoolTypeOK /\ n \in Number /\ orders[o].state # "none"
      /\ orders[o].state = "submitted" => o \notin given
  BY OrderStepFacts, TypeParts DEF TypeInv, OrderFollows, PlacedOnce
<1>1. ASSUME NEW st \in {"submitted", "reserved", "charging", "retried", "completed", "terminated",
                         "failed", "parked"}, orders' = [orders EXCEPT ![o].state = st]
      PROVE  orders'[o].state = st
  BY <1>0, <1>1, OrderMoves
<1>2. ASSUME GiveBack(o), ~ astray'
      PROVE  /\ ~ astray /\ o \in given' /\ ReleaseMsisdn(n)
             /\ o \in given => UNCHANGED numbers
  BY <1>0, <1>2, ReleaseFacts DEF GiveBack
<1>3. ASSUME KeepNumber PROVE UNCHANGED <<numbers, given, astray>>
  BY <1>3 DEF KeepNumber, numbering
<1>4. ASSUME GiveBack(o), orders[o].state \in {"reserved", "charging", "completed", "terminated"}, ~ astray'
      PROVE  ~ astray /\ (Leaves(o) \/ Frees(o))
  <2>1. ~ Keeps(o)' /\ ~ HoldsNumber(o)'
    BY <1>2, <1>4 DEF Keeps, HoldsNumber
  <2>2. CASE o \in given
    BY <1>2, <1>4, <2>1, <2>2 DEF Leaves
  <2>3. CASE o \notin given
    BY <1>2, <1>4, <2>1, <2>3 DEF Frees, Keeps
  <2>. QED BY <2>2, <2>3
<1>5. CASE Provision(o)
  BY <1>0, <1>1, <1>5 DEF Provision, Becomes, numbering, Reserves, StatesKept
<1>6. CASE NoNumber(o) \/ Park(o)
  BY <1>0, <1>1, <1>3, <1>6 DEF NoNumber, Park, Becomes, Leaves, Keeps, HoldsNumber, StatesKept
<1>7. CASE DecompositionFails(o)
  <2>1. /\ orders[o].state = "reserved" /\ o \notin given /\ orders'[o].state = "submitted"
        /\ UNCHANGED <<given, astray>>
        /\ ReleaseMsisdn(n) \/ UNCHANGED numbers
    BY <1>1, <1>3, <1>7 DEF DecompositionFails, Becomes, numbering
  <2>. QED BY <2>1 DEF Leaves, Frees, Keeps, HoldsNumber, StatesKept
<1>8. CASE ServiceFails(o)
  <2>1. /\ orders[o].state = "reserved" /\ orders'[o].state \in {"reserved", "failed"}
        /\ \/ GiveBack(o)
           \/ KeepNumber /\ orders'[o].state = "failed"
    BY <1>1, <1>8 DEF ServiceFails, Becomes
  <2>2. CASE GiveBack(o)
    BY <1>4, <2>1, <2>2 DEF StatesKept, GiveBack
  <2>3. CASE KeepNumber /\ orders'[o].state = "failed"
    BY <1>3, <2>1, <2>3 DEF StatesKept, Leaves, Keeps, HoldsNumber
  <2>. QED BY <2>1, <2>2, <2>3
<1>9. CASE StartActivation(o)
  BY <1>0, <1>1, <1>3, <1>9 DEF StartActivation, Becomes, Leaves, Keeps, HoldsNumber, StatesKept
<1>10. CASE Activate(o)
  <2>1. /\ orders[o].state = "charging" /\ orders'[o].state \in {"retried", "completed"}
        /\ UNCHANGED given /\ (~ astray' => ~ astray /\ o \notin given)
        /\ AssignMsisdn(n) \/ UNCHANGED numbers
    BY <1>1, <1>10 DEF Activate, Becomes
  <2>. QED BY <2>1 DEF Assigns, Leaves, Keeps, HoldsNumber, StatesKept
<1>11. CASE ActivationDeclined(o)
  <2>1. orders[o].state = "charging" /\ orders'[o].state = "retried" /\ (GiveBack(o) \/ KeepNumber)
    BY <1>1, <1>11 DEF ActivationDeclined, Becomes
  <2>2. CASE GiveBack(o)
    BY <1>4, <2>1, <2>2 DEF StatesKept, GiveBack
  <2>3. CASE KeepNumber
    BY <1>3, <2>1, <2>3 DEF StatesKept, Leaves, Keeps, HoldsNumber
  <2>. QED BY <2>1, <2>2, <2>3
<1>12. ASSUME NEW r \in Request, TerminateRelease(r) \/ TerminateCommit(r), requests[r].order = o
       PROVE  Goal
  <2>1. orders[o].state \in {"completed", "terminated"} /\ orders'[o].state \in {"completed", "terminated"}
    BY <1>1, <1>12 DEF TerminateRelease, TerminateCommit, At, PlacedOnce
  <2>2. GiveBack(o) \/ KeepNumber
    BY <1>12 DEF TerminateRelease, TerminateCommit
  <2>3. CASE GiveBack(o)
    BY <1>4, <2>1, <2>3 DEF StatesKept, GiveBack
  <2>4. CASE KeepNumber
    <3>1. HoldsNumber(o)' => HoldsNumber(o)
      BY <1>1, <1>3, <1>12, <2>1, <2>4 DEF TerminateRelease, TerminateCommit, HoldsNumber
    <3>2. Keeps(o)' => Keeps(o)
      BY <1>3, <2>1, <2>4 DEF Keeps
    <3>. QED BY <1>3, <2>1, <2>4, <3>1, <3>2 DEF StatesKept, Leaves
  <2>. QED BY <2>2, <2>3, <2>4
<1>. QED BY <1>5, <1>6, <1>7, <1>8, <1>9, <1>10, <1>11, <1>12 DEF OrderStep, Fulfil

LEMMA PlacedNext == TypeInv /\ PlacedOnce /\ [Next]_vars => PlacedOnce'
<1> SUFFICES ASSUME TypeInv, PlacedOnce, [Next]_vars PROVE PlacedOnce'
  OBVIOUS
<1>1. ASSUME UNCHANGED <<requests, orders, numbering>> PROVE PlacedOnce'
  BY <1>1 DEF PlacedOnce, numbering
<1>2. ASSUME NEW r \in Request, PortalStep(r), UNCHANGED <<orders, numbering>> PROVE PlacedOnce'
  BY <1>2 DEF PlacedOnce, PortalStep, numbering
<1>3. ASSUME NEW r \in Request, NEW s \in Session, NEW w \in Owner, NEW n \in Number, Submit(r, s, w, n)
      PROVE  PlacedOnce'
  BY <1>2, <1>3, SubmitFacts
<1>4. ASSUME NEW r \in Request, NEW s \in Session,
             \/ StepKyc(r, s) \/ KycPoll(r, s) \/ StepCof(r, s) \/ CheckoutInit(r, s)
             \/ CheckoutReturn(r, s) \/ StepOrder(r, s) \/ StepPoll(r, s)
      PROVE  PlacedOnce'
  BY <1>2, <1>4, StartFacts DEF OnlyRequests
<1>5. ASSUME NEW r \in Request,
             \/ OpenOrderAnswered(r) \/ Close(r) \/ Cancel(r) \/ CancelCommit(r) \/ Write(r)
             \/ CreateCustomer(r) \/ Bind(r) \/ Attest(r) \/ AddCard(r)
      PROVE  PlacedOnce'
  BY <1>2, <1>5, OpenOrderFacts, WriteFacts, CustomerFacts
<1>6. ASSUME NEW r \in Request,
             ResumeCustomer(r) \/ DropGhost(r) \/ Abandon(r) \/ AttestationMissing(r)
      PROVE  PlacedOnce'
  BY <1>2, <1>6, QuietFacts
<1>7. ASSUME NEW r \in Request,
             \/ CancelUnmatched(r) \/ \E w \in Owner : CancelLookup(r, w)
             \/ \E o \in Order : TerminateRead(r, o)
      PROVE  PlacedOnce'
  <2>1. /\ UNCHANGED <<orders, given>> /\ requests'[r].at # "submit"
        /\ requests'[r].at \in {"release", "terminate"} => orders[requests'[r].order].state = "completed"
        /\ \A q \in Request \ {r} : requests'[q] = requests[q]
    BY <1>7, BeginFacts DEF OnlyRequests, numbering
  <2>. QED BY <2>1 DEF PlacedOnce
<1>8. ASSUME Sweep \/ Advance PROVE PlacedOnce'
  BY <1>1, <1>8, SweepFacts
<1>9. ASSUME \/ \E s \in Session : LoseSession(s) \/ KycWebhook(s)
             \/ \E w \in Owner : Login(w)
             \/ \E c \in Customer : DeleteCustomer(c)
      PROVE  PlacedOnce'
  BY <1>1, <1>9, OutsideFacts DEF LoseSession
<1>10. ASSUME NEW r \in Request, CreateOrder(r) \/ SubmitOrder(r) PROVE PlacedOnce'
  BY <1>10, PlacingSteps
<1>11. ASSUME NEW o \in Order, OrderStep(o) PROVE PlacedOnce'
  <2>1. /\ StatesKept(o) /\ \A p \in Order \ {o} : orders'[p] = orders[p]
        /\ \A q \in Request : Ends(q)
    BY <1>11, NumberMoves, OrderStepFacts DEF OrderFollows
  <2>2. orders'[o].state \notin {"none", "created"} /\ (orders'[o].state = "submitted" => o \notin given')
    BY <2>1, <1>11, NumberMoves DEF StatesKept
  <2>3. \A r \in Request : requests'[r].at = "submit" =>
            requests'[r] = requests[r] /\ requests[r].sig.order \in Order \ {o}
    BY <2>1, OrdersNamed DEF Ends, Idle, PlacedOnce, StatesKept
  <2>4. ASSUME NEW r \in Request, requests'[r].at \in {"release", "terminate"}
        PROVE  orders'[requests'[r].order].state \in {"completed", "terminated"}
    <3>1. /\ requests'[r].order = requests[r].order /\ requests[r].order \in Order
          /\ orders[requests[r].order].state \in {"completed", "terminated"}
      BY <2>1, <2>4, OrdersNamed DEF Ends, Idle, PlacedOnce
    <3>. QED BY <2>1, <3>1 DEF StatesKept
  <2>5. \A p \in Order : orders'[p].state \in {"none", "created", "submitted"} => p \notin given'
    BY <2>1, <2>2 DEF PlacedOnce, StatesKept
  <2>. QED BY <2>1, <2>3, <2>4, <2>5 DEF PlacedOnce
<1>12. CASE Next
  BY <1>3, <1>4, <1>5, <1>6, <1>7, <1>8, <1>9, <1>10, <1>11, <1>12, NextCases
<1>. QED BY <1>1, <1>12 DEF vars, portal

LEMMA NumberInit == Init => NumberInv
  BY DEF Init, NumberInv, Keeps, NoOrder

LEMMA HoldsKeeps ==
  ASSUME NEW o \in Order, HoldsNumber(o)
  PROVE  Keeps(o)
  BY DEF HoldsNumber, Keeps

LEMMA NumberFulfil ==
  ASSUME TypeInv, PlacedOnce, NumberInv, NEW o \in Order, OrderStep(o), ~ astray'
  PROVE  NumberInv'
<1> DEFINE n == orders[o].number
<1>1. /\ ~ astray /\ StatesKept(o) /\ OrderFollows(o) /\ PoolTypeOK /\ n \in Number
      /\ Reserves(o) \/ Leaves(o) \/ Frees(o) \/ Assigns(o)
      /\ given \subseteq given'
      /\ \A m \in Number \ {n} : numbers'[m] = numbers[m]
  BY NumberMoves, OrderStepFacts, TypeParts DEF TypeInv
<1>2. /\ \A p \in Order : Keeps(p) => orders[p].number \in Number /\ Hard(orders[p].number)
      /\ \A p, q \in Order : Keeps(p) /\ Keeps(q) /\ orders[p].number = orders[q].number => p = q
  BY <1>1 DEF TypeInv, Numbered, NumberInv, Keeps
<1>3. \A p \in Order \ {o} : orders'[p] = orders[p] /\ (Keeps(p)' => Keeps(p))
  <2>1. \A p \in Order \ {o} : orders'[p] = orders[p]
    BY <1>1 DEF OrderFollows
  <2>. QED BY <1>1, <2>1 DEF Keeps
<1>4. orders'[o].number = n
  BY <1>1 DEF OrderFollows
<1>5. ASSUME NEW p \in Order \ {o}, Keeps(p), ~ Leaves(o) \/ Keeps(o)'
      PROVE  orders[p].number # n
  <2>1. CASE Keeps(o)
    BY <1>2, <1>5, <2>1
  <2>2. CASE Reserves(o)
    <3>1. Claimable(n)
      BY <1>1, <2>2, ReserveFacts DEF Reserves
    <3>. QED BY <1>1, <1>2, <1>5, <3>1, HardIsHard
  <2>. QED BY <1>1, <1>5, <2>1, <2>2, HoldsKeeps DEF Leaves, Frees, Assigns
<1>6. ASSUME NEW p \in Order \ {o}, Keeps(p) PROVE Hard(orders[p].number)'
  <2>1. orders[p].number \in Number /\ Hard(orders[p].number) /\ orders'[p] = orders[p]
    BY <1>2, <1>3, <1>6
  <2>2. numbers'[orders[p].number] = numbers[orders[p].number]
    BY <1>1, <1>5, <1>6, <2>1 DEF Leaves
  <2>. QED BY <2>1, <2>2 DEF Hard
<1>7. ASSUME Keeps(o)' PROVE Hard(orders[o].number)'
  <2>1. CASE Reserves(o)
    <3>1. numbers'[n].status = "reserved" /\ numbers'[n].until = 0 /\ numbers'[n].for = None
      BY <1>1, <2>1, ReserveFacts DEF Reserves
    <3>. QED BY <1>4, <3>1 DEF Hard
  <2>2. CASE Leaves(o)
    BY <1>2, <1>4, <1>7, <2>2 DEF Leaves, Hard
  <2>3. CASE Assigns(o)
    <3>1. Hard(n)
      BY <1>2, <2>3, HoldsKeeps DEF Assigns
    <3>2. /\ numbers' \in [Number -> NumberRow]
          /\ numbers'[n].status \notin {"reserved", "available"}
          /\ numbers'[n].until = 0 /\ numbers'[n].for = None
      BY <1>1, <2>3, <3>1, AssignFacts DEF Assigns, Hard, NumberWritten
    <3>. QED BY <1>1, <1>4, <3>2 DEF Hard, NumberRow
  <2>. QED BY <1>1, <1>7, <2>1, <2>2, <2>3 DEF Frees
<1>8. ASSUME NEW p \in Order, NEW q \in Order, Keeps(p)', Keeps(q)', orders'[p].number = orders'[q].number
      PROVE  p = q
  <2>1. CASE p # o /\ q # o
    BY <1>2, <1>3, <1>8, <2>1
  <2>2. CASE p = o \/ q = o
    BY <1>3, <1>4, <1>5, <1>8, <2>2
  <2>. QED BY <2>1, <2>2
<1>. QED BY <1>3, <1>6, <1>7, <1>8 DEF NumberInv

LEMMA NumberNext == TypeInv /\ HoldInv /\ CrossInv /\ PlacedOnce /\ NumberInv /\ [Next]_vars => NumberInv'
<1> SUFFICES ASSUME TypeInv, HoldInv, CrossInv, PlacedOnce, NumberInv, [Next]_vars, ~ astray'
             PROVE  NumberInv'
  BY DEF NumberInv
<1>1. ASSUME PoolMoves PROVE NumberInv'
  <2>1. UNCHANGED <<given, astray>> /\ \A m \in Number : Hard(m) => numbers'[m] = numbers[m]
    BY <1>1 DEF PoolMoves, PoolKept, numbering
  <2>2. \A o \in Order : Keeps(o)' => Keeps(o) /\ orders'[o] = orders[o]
    BY <1>1, <2>1 DEF PoolMoves, Keeps
  <2>3. \A o \in Order : Keeps(o)' => Hard(orders[o].number)'
    <3> SUFFICES ASSUME NEW o \in Order, Keeps(o)' PROVE Hard(orders[o].number)'
      OBVIOUS
    <3>1. Keeps(o) /\ orders'[o] = orders[o] /\ orders[o].number \in Number
      BY <2>2 DEF TypeInv, Numbered, Keeps
    <3>2. Hard(orders[o].number)
      BY <2>1, <3>1 DEF NumberInv
    <3>. QED BY <2>1, <3>1, <3>2 DEF Hard
  <2>4. \A o, p \in Order : Keeps(o)' /\ Keeps(p)' /\ orders'[o].number = orders'[p].number => o = p
    BY <2>1, <2>2 DEF NumberInv
  <2>. QED BY <2>3, <2>4 DEF NumberInv
<1>. QED BY <1>1, PoolCases, NumberFulfil

(* One order per number, from the reservation until the order gives it back, as long as no *)
(* order goes astray: what an order has is reserved or assigned without a window, which    *)
(* neither a hold nor another reservation takes, and so is the number of an order whose    *)
(* termination was read and set twice with the release failed (reserve_next_msisdn,        *)
(* release_msisdn, terminate).                                                             *)
THEOREM OneLinePerNumber == Spec => []NumberNotShared
<1> DEFINE Inv == TypeInv /\ HoldInv /\ CrossInv /\ PlacedOnce /\ NumberInv
<1>1. Init => Inv
  BY TypeInit, HoldInit, PlacedInit, NumberInit
<1>2. Inv /\ [Next]_vars => Inv'
  BY TypeNext, HoldNext, PlacedNext, NumberNext
<1>3. Inv => NumberNotShared
  BY HoldsKeeps DEF NumberInv, NumberNotShared
<1>. QED BY <1>1, <1>2, <1>3, PTL DEF Spec


-----------------------------------------------------------------------------
(* Attestation. *)

LEMMA KycInit == Init => KycInv
  BY DEF Init, KycInv, Passed, CopyPassed, NoSession, Idle, Call, Nobody, NoOrder

(* Sessions, copies and orders are as they were, or passed when they were written. *)
LEMMA KycJoins ==
  ASSUME TypeInv, KycInv, CustomersKept,
         \A s \in Session : store'[s] = store[s] \/ Passed(store'[s]),
         \A q \in Request : requests'[q] = requests[q] \/ CopyPassed(requests'[q]) \/ CopyPassed(requests[q])',
         \A o \in Order : orders'[o].state # "none" =>
             orders'[o].customer \in Customer /\ customers'[orders'[o].customer].verified
  PROVE  KycInv'
<1>1. ASSUME NEW s \in Session PROVE Passed(store[s])'
  <2>1. Passed(store'[s])
    BY DEF KycInv
  <2>. QED BY <2>1 DEF Passed, Attested, CustomersKept
<1>2. ASSUME NEW q \in Request PROVE CopyPassed(requests[q])'
  <2>1. CASE CopyPassed(requests'[q])
    BY <2>1 DEF CopyPassed, Passed, Attested, CustomersKept
  <2>2. CASE requests'[q] = requests[q]
    <3>1. CopyPassed(requests'[q])
      BY <2>2 DEF KycInv
    <3>. QED BY <2>1, <3>1
  <2>. QED BY <2>1, <2>2
<1>3. \A c \in Customer : customers'[c].verified => customers'[c].status = "active"
  BY DEF CustomersKept
<1>. QED BY <1>1, <1>2, <1>3 DEF KycInv

LEMMA KycNext == TypeInv /\ KycInv /\ [Next]_vars => KycInv'
<1> SUFFICES ASSUME TypeInv, KycInv, [Next]_vars PROVE KycInv'
  OBVIOUS
<1>1. UNCHANGED customers => CustomersKept
  BY DEF CustomersKept, KycInv, Attested
<1>2. /\ UNCHANGED orders /\ CustomersKept =>
            \A o \in Order : orders'[o].state # "none" =>
                orders'[o].customer \in Customer /\ customers'[orders'[o].customer].verified
      /\ UNCHANGED store => \A s \in Session : store'[s] = store[s]
  BY DEF KycInv, CustomersKept
<1>3. CASE UNCHANGED <<store, requests, customers, orders>>
  BY <1>1, <1>2, <1>3, KycJoins
<1>4. ASSUME NEW r \in Request, UNCHANGED <<store, customers, orders>>, CopyPassed(requests'[r]),
             \A q \in Request \ {r} : requests'[q] = requests[q]
      PROVE  KycInv'
  BY <1>1, <1>2, <1>4, KycJoins
<1>5. CASE UNCHANGED vars
  BY <1>3, <1>5 DEF vars, portal, people
<1>6. ASSUME NEW r \in Request, OpenOrderAnswered(r) \/ Close(r) \/ Cancel(r) \/ CancelCommit(r)
      PROVE  KycInv'
  BY <1>4, <1>6, OpenOrderFacts DEF people, PortalStep
<1>7. ASSUME Sweep \/ Advance PROVE KycInv'
  BY <1>3, <1>7, SweepFacts DEF people
<1>8. ASSUME NEW r \in Request, NEW s \in Session, NEW w \in Owner, NEW n \in Number, Submit(r, s, w, n)
      PROVE  KycInv'
  BY <1>4, <1>8, SubmitFacts DEF PortalStep
<1>9. ASSUME NEW r \in Request, NEW s \in Session,
             \/ StepKyc(r, s) \/ KycPoll(r, s) \/ StepCof(r, s) \/ CheckoutInit(r, s)
             \/ CheckoutReturn(r, s) \/ StepOrder(r, s) \/ StepPoll(r, s)
      PROVE  KycInv'
  <2>1. Passed(store[s])
    BY DEF KycInv
  <2>. QED BY <1>4, <1>9, <2>1, StartFacts DEF people, PortalStep, OnlyRequests
<1>10. ASSUME NEW r \in Request,
              ResumeCustomer(r) \/ DropGhost(r) \/ Abandon(r) \/ AttestationMissing(r)
       PROVE  KycInv'
  BY <1>4, <1>10, QuietFacts DEF people, PortalStep
<1>11. ASSUME NEW r \in Request,
              \/ CancelUnmatched(r) \/ \E w \in Owner : CancelLookup(r, w)
              \/ \E o \in Order : TerminateRead(r, o)
       PROVE  KycInv'
  BY <1>4, <1>11, BeginFacts DEF people, OnlyRequests
<1>12. ASSUME NEW r \in Request, Write(r) PROVE KycInv'
  BY <1>1, <1>2, <1>12, WriteFacts, KycJoins DEF PortalStep, people
<1>13. ASSUME NEW s \in Session, LoseSession(s) PROVE KycInv'
  <2>1. \A t \in Session : store'[t] = store[t] \/ Passed(store'[t])
    <3>1. \A t \in Session : store'[t] = store[t] \/ store'[t] = NoSession
      BY <1>13 DEF LoseSession, TypeInv, TypeOK
    <3>2. Passed(NoSession)
      BY DEF NoSession, Passed
    <3>. QED BY <3>1, <3>2
  <2>. QED BY <1>1, <1>2, <1>13, <2>1, KycJoins DEF LoseSession, people
<1>14. ASSUME NEW r \in Request, CreateCustomer(r) \/ Bind(r) \/ Attest(r) \/ AddCard(r) PROVE KycInv'
  BY <1>2, <1>14, CustomerFacts, KycJoins DEF PortalStep
<1>15. ASSUME \/ \E s \in Session : KycWebhook(s)
              \/ \E w \in Owner : Login(w)
              \/ \E c \in Customer : DeleteCustomer(c)
       PROVE  KycInv'
  BY <1>2, <1>15, OutsideFacts, KycJoins
<1>16. ASSUME NEW r \in Request, CreateOrder(r) \/ SubmitOrder(r) PROVE KycInv'
  BY <1>1, <1>2, <1>16, PlacingFacts, KycJoins DEF people, Placing
<1>17. ASSUME NEW o \in Order, OrderStep(o) PROVE KycInv'
  <2>1. UNCHANGED <<store, customers>> /\ OrderFollows(o) /\ \A q \in Request : Ends(q)
    BY <1>17, OrderStepFacts DEF people
  <2>2. \A p \in Order : orders'[p].state # "none" =>
            orders'[p].customer \in Customer /\ customers'[orders'[p].customer].verified
    BY <2>1 DEF KycInv, OrderFollows
  <2>3. \A q \in Request : requests'[q] = requests[q] \/ CopyPassed(requests'[q])
    BY <2>1 DEF Ends, Idle, CopyPassed, Call
  <2>. QED BY <1>1, <1>2, <2>1, <2>2, <2>3, KycJoins
<1>18. CASE Next
  BY <1>6, <1>7, <1>8, <1>9, <1>10, <1>11, <1>12, <1>13, <1>14, <1>15, <1>16, <1>17, <1>18, NextCases
<1>. QED BY <1>5, <1>18

(* No order without an attested customer: com does not ask, but no path of the funnel,    *)
(* with stale copies, replaced customers, lost sessions and both deployments, reaches the *)
(* order step before the attestation (complete_kyc_attest, signup_step_order).            *)
THEOREM AttestedFirst == Spec => []KycBeforeOrder
<1>1. Init => TypeInv /\ KycInv
  BY TypeInit, KycInit
<1>2. TypeInv /\ KycInv /\ [Next]_vars => (TypeInv /\ KycInv)'
  BY TypeNext, KycNext
<1>3. KycInv => KycBeforeOrder
  BY DEF KycInv, KycBeforeOrder
<1>. QED BY <1>1, <1>2, <1>3, PTL DEF Spec


-----------------------------------------------------------------------------
(* The promise of NumberLife. *)

(* Nothing is taken out of the pool but by a hold or for an order. *)
AllAccounted == \A n \in Number : numbers[n].status = "available" \/ Soft(n) \/ Hard(n)
Accounted == ~ astray => AllAccounted

(* The mapping. *)
NoHold == [by |-> None, until |-> 0]
FreeNumbers == {n \in Number : numbers[n].status = "available"}
Holds == [n \in Number |-> IF Soft(n) THEN [by |-> numbers[n].for, until |-> numbers[n].until] ELSE NoHold]
Lines == [o \in Order |-> IF HoldsNumber(o) THEN orders[o].number ELSE None]

LifeKept == AllAccounted' /\ (UNCHANGED Life!vars \/ Life!Next)

LEMMA LifeIsMapped ==
  UNCHANGED <<FreeNumbers, Holds, Lines, clock>> => UNCHANGED Life!vars
  BY DEF Life!vars, FreeNumbers, Holds, NoHold, Lines

LEMMA LinesStay ==
  /\ UNCHANGED <<orders, given>> => UNCHANGED Lines
  /\ UNCHANGED numbers => UNCHANGED <<FreeNumbers, Holds>> /\ (AllAccounted => AllAccounted')
  BY DEF Lines, HoldsNumber, FreeNumbers, Holds, Soft, AllAccounted, Hard

LEMMA HeldIsSoft ==
  ASSUME NEW n \in Number
  PROVE  /\ Soft(n) <=> Holds[n] # NoHold
         /\ Soft(n) => Holds[n].by = numbers[n].for /\ Holds[n].until = numbers[n].until
         /\ ~ Soft(n) => Holds[n] = NoHold
<1>1. CASE Soft(n)
  <2>1. Holds[n] = [by |-> numbers[n].for, until |-> numbers[n].until]
    BY <1>1 DEF Holds
  <2>2. numbers[n].until # 0
    BY <1>1 DEF Soft
  <2>. QED BY <1>1, <2>1, <2>2 DEF NoHold
<1>2. CASE ~ Soft(n)
  BY <1>2 DEF Holds
<1>. QED BY <1>1, <1>2

(* An open order is opened or resumed: a hold is taken, or the answer was that it cannot be. *)
LEMMA LifeOpens ==
  ASSUME PoolTypeOK, AllAccounted, NEW owner \in Owner, NEW n \in Number, NEW oo \in OpenOrder,
         Resume(owner, n, oo) \/ Open(owner, n, oo), UNCHANGED <<clock, orders, given>>
  PROVE  LifeKept
<1>1. /\ numbers' \in [Number -> NumberRow]
      /\ \A m \in Number \ {n} : numbers'[m] = numbers[m]
      /\ ~ Holdable(n, oo) => numbers' = numbers
      /\ Holdable(n, oo) => /\ numbers'[n].status = "reserved" /\ numbers'[n].until = clock + Ttl
                            /\ numbers'[n].for = oo
  BY HeldFacts, ResumeFacts, OpenFacts
<1>2. CASE ~ Holdable(n, oo)
  BY <1>1, <1>2, LinesStay, LifeIsMapped DEF LifeKept
<1>3. CASE Holdable(n, oo)
  <2> DEFINE held == [by |-> oo, until |-> clock + Ttl]
  <2>1. /\ numbers'[n].status # "available" /\ Soft(n)'
        /\ [by |-> numbers'[n].for, until |-> numbers'[n].until] = held
    BY <1>1, <1>3, Windows DEF Soft
  <2>2. AllAccounted'
    BY <1>1, <2>1 DEF AllAccounted, Soft, Hard
  <2>3. FreeNumbers' = FreeNumbers \ {n}
    BY <1>1, <2>1 DEF FreeNumbers
  <2>4. Holds' = [Holds EXCEPT ![n] = held]
    <3> HIDE DEF held
    <3>. QED BY <1>1, <2>1 DEF Holds, Soft
  <2>5. n \in FreeNumbers \/ Holds[n].by = oo \/ (Holds[n] # NoHold /\ Holds[n].until < clock)
    BY <1>3, HardIsHard, HeldIsSoft DEF AllAccounted, Holdable, FreeNumbers
  <2>6. UNCHANGED <<Lines, clock>>
    BY LinesStay
  <2>7. Life!TakeHold(n, oo)
    BY <2>3, <2>4, <2>5, <2>6
       DEF Life!TakeHold, Life!IsHeld, Life!NoHold, FreeNumbers, Holds, NoHold, Lines
  <2>. QED BY <2>2, <2>7 DEF LifeKept, Life!Next
<1>. QED BY <1>2, <1>3

(* What a cancelled open order, or the swept ones, held is free. *)
LEMMA LifeReleases ==
  ASSUME PoolTypeOK, AllAccounted, NEW oos \in SUBSET OpenOrder, numbers' = Released(numbers, oos),
         UNCHANGED <<clock, orders, given>>, NEW held \in SUBSET Number,
         \A n \in Number : n \in held <=> Soft(n) /\ numbers[n].for \in oos
  PROVE  AllAccounted' /\ (UNCHANGED Life!vars \/ Life!GiveBack(held))
<1>1. /\ numbers' \in [Number -> NumberRow]
      /\ \A n \in Number : numbers'[n] = IF n \in held THEN Free ELSE numbers[n]
  BY ReleasedFacts
<1>2. Free.status = "available" /\ Free.until = 0
  BY DEF Free
<1>3. AllAccounted'
  BY <1>1, <1>2 DEF AllAccounted, Soft, Hard
<1>4. FreeNumbers' = FreeNumbers \union held
  BY <1>1, <1>2 DEF FreeNumbers
<1>5. Holds' = [n \in Number |-> IF n \in held THEN NoHold ELSE Holds[n]]
  BY <1>1, <1>2 DEF Holds, Soft
<1>6. UNCHANGED <<Lines, clock>>
  BY LinesStay
<1>7. CASE held = {}
  <2>1. numbers' = numbers
    BY <1>1, <1>7, PoolParts
  <2>. QED BY <1>3, <1>6, <2>1, LinesStay, LifeIsMapped
<1>8. CASE held # {}
  <2>1. Life!GiveBack(held)
    BY <1>4, <1>5, <1>6, <1>8
       DEF Life!GiveBack, Life!NoHold, FreeNumbers, Holds, NoHold, Lines
  <2>. QED BY <1>3, <2>1
<1>. QED BY <1>7, <1>8

LEMMA LifeCancels ==
  ASSUME PoolTypeOK, AllAccounted, NEW oo \in OpenOrder, CancelOpenOrder(oo),
         UNCHANGED <<clock, orders, given>>
  PROVE  LifeKept
<1>0. PICK held \in SUBSET Number : held = {n \in Number : Soft(n) /\ numbers[n].for = oo}
  OBVIOUS
<1>1. held = {n \in Number : Life!IsHeld(n) /\ Holds[n].by = oo}
  <2>1. \A n \in Number : Life!IsHeld(n) <=> Holds[n] # NoHold
    BY DEF Life!IsHeld, Life!NoHold, Holds, NoHold
  <2>. QED BY <1>0, <2>1, HeldIsSoft
<1>2. AllAccounted' /\ (UNCHANGED Life!vars \/ Life!GiveBack(held))
  <2>1. /\ {oo} \in SUBSET OpenOrder /\ numbers' = Released(numbers, {oo})
        /\ \A n \in Number : n \in held <=> Soft(n) /\ numbers[n].for \in {oo}
    BY <1>0 DEF CancelOpenOrder
  <2>. QED BY <2>1, LifeReleases
<1>3. Life!GiveBack(held) => Life!Cancel(oo)
  BY <1>1 DEF Life!Cancel, Life!GiveBack, Holds, NoHold
<1>. QED BY <1>2, <1>3 DEF LifeKept, Life!Next

LEMMA LifeSweeps ==
  ASSUME PoolTypeOK, HoldInv, AllAccounted, SweepExpired, UNCHANGED <<clock, orders, given>>
  PROVE  LifeKept
<1>0. PICK held \in SUBSET Number : held = {n \in Number : Soft(n) /\ numbers[n].for \in Expired}
  OBVIOUS
<1>1. \A n \in held : Life!IsHeld(n) /\ Holds[n].until <= clock
  <2> SUFFICES ASSUME NEW n \in held PROVE Life!IsHeld(n) /\ Holds[n].until <= clock
    OBVIOUS
  <2>1. /\ n \in Number /\ Soft(n)
        /\ openOrders[numbers[n].for].status = "open" /\ openOrders[numbers[n].for].until <= clock
    BY <1>0 DEF Expired
  <2>2. numbers[n].until <= clock
    BY <2>1 DEF HoldInv
  <2>3. Holds[n] # NoHold /\ Holds[n].until <= clock
    BY <2>1, <2>2, HeldIsSoft
  <2>. QED BY <2>3 DEF Life!IsHeld, Life!NoHold, Holds, NoHold
<1>2. AllAccounted' /\ (UNCHANGED Life!vars \/ Life!GiveBack(held))
  <2>1. /\ Expired \in SUBSET OpenOrder /\ numbers' = Released(numbers, Expired)
        /\ \A n \in Number : n \in held <=> Soft(n) /\ numbers[n].for \in Expired
    BY <1>0 DEF SweepExpired, Expired
  <2>. QED BY <2>1, LifeReleases
<1>3. Life!GiveBack(held) => Life!Lapse
  <2>1. held \in SUBSET {n \in Number : Life!IsHeld(n) /\ Holds[n].until <= clock}
    BY <1>1
  <2>. QED BY <2>1 DEF Life!Lapse, Holds, NoHold
<1>. QED BY <1>2, <1>3 DEF LifeKept, Life!Next

LEMMA LifeTicks ==
  ASSUME AllAccounted, Advance
  PROVE  LifeKept
<1>1. clock' = clock + 1 /\ UNCHANGED <<numbers, orders, given>>
  BY DEF Advance, Tick, Others, numbering
<1>2. Life!Tick
  BY <1>1, LinesStay DEF Life!Tick, FreeNumbers, Holds, NoHold, Lines
<1>. QED BY <1>1, <1>2, LinesStay DEF LifeKept, Life!Next

LEMMA LifePlaces ==
  ASSUME AllAccounted, UNCHANGED <<numbers, clock, given>>,
         \A p \in Order : \/ orders'[p] = orders[p]
                          \/ /\ orders[p].state \in {"none", "created"}
                             /\ orders'[p].state \in {"created", "submitted"}
  PROVE  LifeKept
<1>1. UNCHANGED Lines
  BY DEF Lines, HoldsNumber
<1>. QED BY <1>1, LinesStay, LifeIsMapped DEF LifeKept

(* What provisioning, activation and termination do is a line's start, its end, the return *)
(* of a number that was lost, or nothing.                                                  *)
LEMMA LifeFulfils ==
  ASSUME TypeInv, PlacedOnce, NumberInv, AllAccounted, NEW o \in Order, OrderStep(o), ~ astray'
  PROVE  LifeKept
<1>0. PICK n \in Number : n = orders[o].number
  BY OrderStepFacts
<1>1. /\ ~ astray /\ None \notin Number /\ PoolTypeOK /\ UNCHANGED clock
      /\ orders'[o].number = n
      /\ \A p \in Order \ {o} : orders'[p] = orders[p] /\ (HoldsNumber(p)' <=> HoldsNumber(p))
      /\ \A m \in Number \ {n} : numbers'[m] = numbers[m]
      /\ Reserves(o) \/ Leaves(o) \/ Frees(o) \/ Assigns(o)
  <2>1. /\ ~ astray /\ OrderFollows(o) /\ StatesKept(o) /\ given \subseteq given' /\ UNCHANGED clock
        /\ \A m \in Number \ {n} : numbers'[m] = numbers[m]
        /\ Reserves(o) \/ Leaves(o) \/ Frees(o) \/ Assigns(o)
    BY <1>0, NumberMoves, OrderStepFacts
  <2>2. None \notin Number /\ PoolTypeOK
    BY TypeParts, PoolAssumption DEF TypeInv
  <2>3. \A p \in Order \ {o} : orders'[p] = orders[p] /\ (p \in given' <=> p \in given)
    BY <2>1 DEF OrderFollows, StatesKept
  <2>4. \A p \in Order \ {o} : HoldsNumber(p)' <=> HoldsNumber(p)
    BY <2>3 DEF HoldsNumber
  <2>. QED BY <1>0, <2>1, <2>2, <2>3, <2>4 DEF OrderFollows
<1>2. /\ \A p \in Order : Keeps(p) => Hard(orders[p].number)
      /\ \A p, q \in Order : Keeps(p) /\ Keeps(q) /\ orders[p].number = orders[q].number => p = q
  BY <1>1 DEF NumberInv
<1>3. HoldsNumber(o)' = HoldsNumber(o) => UNCHANGED Lines
  BY <1>0, <1>1 DEF Lines
<1>4. CASE Reserves(o)
  <2>1. ReserveNext(n) /\ ~ HoldsNumber(o) /\ HoldsNumber(o)'
    BY <1>0, <1>4 DEF Reserves, HoldsNumber
  <2>2. /\ numbers' \in [Number -> NumberRow] /\ Claimable(n)
        /\ numbers'[n].status = "reserved" /\ numbers'[n].until = 0 /\ numbers'[n].for = None
    BY <1>1, <2>1, ReserveFacts DEF NumberWritten
  <2>3. AllAccounted'
    BY <1>1, <2>2 DEF AllAccounted, Soft, Hard
  <2>4. FreeNumbers' = FreeNumbers \ {n}
    BY <1>1, <2>2 DEF FreeNumbers
  <2>5. Holds' = [Holds EXCEPT ![n] = NoHold]
    BY <1>1, <2>2 DEF Holds, Soft
  <2>6. Lines' = [Lines EXCEPT ![o] = n] /\ Lines[o] = None
    BY <1>1, <2>1 DEF Lines
  <2>7. n \in FreeNumbers \/ Holds[n] # NoHold
    BY <1>1, <2>2, HeldIsSoft DEF Claimable, FreeNumbers
  <2>8. Life!StartLine(n, o)
    BY <1>1, <2>4, <2>5, <2>6, <2>7
       DEF Life!StartLine, Life!IsHeld, Life!NoHold, FreeNumbers, Holds, NoHold, Lines
  <2>. QED BY <1>1, <2>3, <2>8 DEF LifeKept, Life!Next
<1>5. ASSUME HoldsNumber(o), ~ HoldsNumber(o)', AllAccounted', UNCHANGED Holds,
             FreeNumbers' = FreeNumbers \union {n} \/ UNCHANGED FreeNumbers
      PROVE  LifeKept
  <2>1. Lines' = [Lines EXCEPT ![o] = None] /\ Lines[o] = n
    BY <1>0, <1>1, <1>5 DEF Lines
  <2>2. Life!EndLine(o)
    BY <1>1, <1>5, <2>1 DEF Life!EndLine, FreeNumbers, Holds, NoHold, Lines
  <2>. QED BY <1>5, <2>2 DEF LifeKept, Life!Next
<1>6. CASE Leaves(o)
  <2>1. AllAccounted' /\ UNCHANGED <<FreeNumbers, Holds>> /\ (HoldsNumber(o)' => HoldsNumber(o))
    BY <1>6, LinesStay DEF Leaves
  <2>2. CASE HoldsNumber(o) /\ ~ HoldsNumber(o)'
    BY <1>5, <2>1, <2>2
  <2>3. CASE ~ (HoldsNumber(o) /\ ~ HoldsNumber(o)')
    <3>1. UNCHANGED Lines
      BY <1>1, <2>1, <2>3, <1>0 DEF Lines
    <3>. QED BY <1>1, <2>1, <3>1, LifeIsMapped DEF LifeKept
  <2>. QED BY <2>2, <2>3
<1>7. CASE Frees(o)
  <2>1. ReleaseMsisdn(n) /\ Hard(n) /\ Keeps(o) /\ ~ HoldsNumber(o)'
    <3>1. Keeps(o) /\ ~ Keeps(o)'
      BY <1>7 DEF Frees
    <3>2. ~ HoldsNumber(o)'
      BY <3>1 DEF Keeps, HoldsNumber
    <3>. QED BY <1>0, <1>2, <1>7, <3>1, <3>2 DEF Frees
  <2>2. numbers' \in [Number -> NumberRow] /\ numbers'[n].status = "available"
    BY <1>1, <2>1, ReleaseFacts DEF NumberWritten
  <2>3. AllAccounted'
    BY <1>1, <2>2 DEF AllAccounted, Soft, Hard
  <2>4. FreeNumbers' = FreeNumbers \union {n}
    BY <1>1, <2>2 DEF FreeNumbers
  <2>5. UNCHANGED Holds /\ Holds[n] = NoHold
    <3>1. ~ Soft(n)
      BY <2>1, HardIsHard
    <3>. QED BY <1>1, <2>2, <3>1, HeldIsSoft DEF Holds, Soft
  <2>6. CASE HoldsNumber(o)
    BY <1>5, <2>1, <2>3, <2>4, <2>5, <2>6
  <2>7. CASE ~ HoldsNumber(o)
    <3>1. UNCHANGED Lines
      BY <1>0, <1>1, <2>1, <2>7 DEF Lines
    <3>2. \A p \in Order : Lines[p] # n
      <4> SUFFICES ASSUME NEW p \in Order, HoldsNumber(p), orders[p].number = n PROVE FALSE
        BY <1>1 DEF Lines
      <4>1. p = o
        BY <1>0, <1>2, <2>1, HoldsKeeps
      <4>. QED BY <2>7, <4>1
    <3>3. Life!Recover(n)
      BY <1>1, <2>4, <2>5, <3>1, <3>2
         DEF Life!Recover, Life!IsHeld, Life!NoHold, FreeNumbers, Holds, NoHold, Lines
    <3>. QED BY <2>3, <3>3 DEF LifeKept, Life!Next
  <2>. QED BY <2>6, <2>7
<1>8. CASE Assigns(o)
  <2>1. AssignMsisdn(n) /\ HoldsNumber(o) /\ HoldsNumber(o)' /\ Hard(n)
    BY <1>0, <1>2, <1>8, HoldsKeeps DEF Assigns
  <2>2. /\ numbers' \in [Number -> NumberRow] /\ numbers'[n].status \notin {"reserved", "available"}
        /\ numbers'[n].until = 0 /\ numbers'[n].for = None
    BY <1>1, <2>1, AssignFacts DEF NumberWritten, Hard
  <2>3. AllAccounted'
    BY <1>1, <2>2 DEF AllAccounted, Soft, Hard, NumberRow
  <2>4. UNCHANGED <<FreeNumbers, Holds>>
    <3>1. numbers[n].status # "available" /\ ~ Soft(n)
      BY <2>1, HardIsHard DEF Hard
    <3>. QED BY <1>1, <2>2, <3>1 DEF FreeNumbers, Holds, Soft
  <2>5. UNCHANGED Lines
    BY <1>0, <1>1, <2>1 DEF Lines
  <2>. QED BY <1>1, <2>3, <2>4, <2>5, LifeIsMapped DEF LifeKept
<1>. QED BY <1>1, <1>4, <1>6, <1>7, <1>8

LifeInv == TypeInv /\ HoldInv /\ CrossInv /\ PlacedOnce /\ NumberInv /\ Accounted

LEMMA LifeStep == LifeInv /\ [Next]_vars /\ ~ astray' => LifeKept
<1> SUFFICES ASSUME TypeInv, HoldInv, CrossInv, PlacedOnce, NumberInv, Accounted, [Next]_vars, ~ astray'
             PROVE  LifeKept
  BY DEF LifeInv
<1>0. PoolTypeOK
  BY TypeParts DEF TypeInv
<1>1. UNCHANGED numbering => AllAccounted
  BY DEF numbering, Accounted
<1>2. ASSUME UNCHANGED <<numbers, clock, orders, numbering>> PROVE LifeKept
  BY <1>1, <1>2, LinesStay, LifeIsMapped DEF LifeKept, numbering
<1>3. CASE UNCHANGED vars
  BY <1>2, <1>3 DEF vars, pool
<1>4. ASSUME NEW r \in Request, OpenOrderAnswered(r) PROVE LifeKept
  <2> DEFINE sig == requests[r].sig
  <2>1. sig.owner \in Owner /\ sig.number \in Number
    <3>1. requests[r].at = "open" /\ sig \in SignupSession
      BY <1>4, RequestFacts DEF OpenOrderAnswered, At, CopyFilled, Call
    <3>. QED BY <3>1 DEF SignupSession
  <2>2. UNCHANGED <<clock, orders, numbering>>
    BY <1>4 DEF OpenOrderAnswered
  <2>3. ASSUME NEW oo \in OpenOrder, Resume(sig.owner, sig.number, oo) \/ Open(sig.owner, sig.number, oo)
        PROVE  LifeKept
    <3> HIDE DEF sig
    <3>. QED BY <1>0, <1>1, <2>1, <2>2, <2>3, LifeOpens DEF numbering
  <2>4. CASE UNCHANGED numbers
    BY <1>2, <2>2, <2>4
  <2>. QED BY <1>4, <2>3, <2>4 DEF OpenOrderAnswered, Sig
<1>5. ASSUME NEW r \in Request, Close(r) \/ CancelCommit(r) PROVE LifeKept
  BY <1>2, <1>5 DEF Close, CompleteOpenOrder, CancelCommit, CancelUnheld
<1>6. ASSUME NEW r \in Request, Cancel(r) PROVE LifeKept
  <2>1. requests[r].openOrder \in OpenOrder /\ CancelOpenOrder(requests[r].openOrder)
        /\ UNCHANGED <<clock, orders, numbering>>
    BY <1>6, RequestFacts DEF Cancel, At
  <2>2. PICK oo \in OpenOrder : oo = requests[r].openOrder
    BY <2>1
  <2>. QED BY <1>0, <1>1, <2>1, <2>2, LifeCancels DEF numbering
<1>7. CASE Sweep
  BY <1>0, <1>1, <1>7, LifeSweeps DEF Sweep, Others, numbering
<1>8. CASE Advance
  BY <1>1, <1>8, LifeTicks DEF Advance, Others
<1>9. ASSUME NEW r \in Request, NEW s \in Session, NEW w \in Owner, NEW n \in Number, Submit(r, s, w, n)
      PROVE  LifeKept
  BY <1>2, <1>9, SubmitFacts DEF pool
<1>10. ASSUME NEW r \in Request, NEW s \in Session,
              \/ StepKyc(r, s) \/ KycPoll(r, s) \/ StepCof(r, s) \/ CheckoutInit(r, s)
              \/ CheckoutReturn(r, s) \/ StepOrder(r, s) \/ StepPoll(r, s)
       PROVE  LifeKept
  BY <1>2, <1>10, StartFacts DEF pool, OnlyRequests
<1>11. ASSUME NEW r \in Request,
              ResumeCustomer(r) \/ DropGhost(r) \/ Abandon(r) \/ AttestationMissing(r)
       PROVE  LifeKept
  BY <1>2, <1>11, QuietFacts DEF pool
<1>12. ASSUME NEW r \in Request,
              \/ CancelUnmatched(r) \/ \E w \in Owner : CancelLookup(r, w)
              \/ \E o \in Order : TerminateRead(r, o)
       PROVE  LifeKept
  BY <1>2, <1>12, BeginFacts DEF pool, OnlyRequests
<1>13. ASSUME NEW r \in Request, Write(r) \/ CreateCustomer(r) \/ Bind(r) \/ Attest(r) \/ AddCard(r)
       PROVE  LifeKept
  BY <1>2, <1>13, WriteFacts, CustomerFacts DEF pool
<1>14. ASSUME \/ \E s \in Session : LoseSession(s) \/ KycWebhook(s)
              \/ \E w \in Owner : Login(w)
              \/ \E c \in Customer : DeleteCustomer(c)
       PROVE  LifeKept
  BY <1>2, <1>14, OutsideFacts DEF LoseSession, pool
<1>15. ASSUME NEW r \in Request, CreateOrder(r) \/ SubmitOrder(r) PROVE LifeKept
  <2>1. UNCHANGED <<numbers, clock, numbering>>
    BY <1>15, PlacingFacts DEF pool
  <2>. QED BY <1>1, <1>15, <2>1, PlacingSteps, LifePlaces DEF numbering
<1>16. ASSUME NEW o \in Order, OrderStep(o) PROVE LifeKept
  <2>1. ~ astray
    BY <1>16, NumberMoves
  <2>. QED BY <1>16, <2>1, LifeFulfils DEF Accounted
<1>17. CASE Next
  BY <1>4, <1>5, <1>6, <1>7, <1>8, <1>9, <1>10, <1>11, <1>12, <1>13, <1>14, <1>15, <1>16, <1>17, NextCases
<1>. QED BY <1>3, <1>17

LEMMA LifeInit == Init => Accounted /\ Life!Init
<1> SUFFICES ASSUME Init PROVE Accounted /\ Life!Init
  OBVIOUS
<1>1. \A n \in Number : numbers[n].status = "available" /\ ~ Soft(n)
  BY DEF Init, PoolInit, Free, Soft
<1>2. \A o \in Order : orders[o].state = "none"
  BY DEF Init, NoOrder
<1>3. Accounted
  BY <1>1 DEF Accounted, AllAccounted
<1>4. /\ FreeNumbers = Number /\ Holds = [n \in Number |-> NoHold]
      /\ Lines = [o \in Order |-> None] /\ clock = 1
  BY <1>1, <1>2 DEF FreeNumbers, Holds, Lines, HoldsNumber, Init, PoolInit
<1>5. Life!Init
  BY <1>4 DEF Life!Init, Life!NoHold, FreeNumbers, Holds, NoHold, Lines
<1>. QED BY <1>3, <1>5

(* The pool keeps what NumberLife says: every number is free, held or a line's, and one of *)
(* these; a hold is overtaken by a hold only after its window; the sweep frees none before *)
(* its time; the number of a line is left by the end of that line alone, which may lose it *)
(* - a release that failed - and nobody takes it while the line lasts; until an order goes *)
(* astray (hold_msisdn, sweep_expired, reserve_next_msisdn, release_msisdn).               *)
THEOREM PoolKeepsPromise == Spec => PromiseKept
<1>1. Init => LifeInv /\ Life!Init
  BY TypeInit, HoldInit, PlacedInit, NumberInit, LifeInit DEF LifeInv
<1>2. LifeInv /\ [Next]_vars => LifeInv'
  <2>1. LifeInv /\ [Next]_vars => Accounted'
    BY LifeStep DEF Accounted, LifeKept
  <2>2. LifeInv /\ [Next]_vars => (TypeInv /\ HoldInv /\ CrossInv /\ PlacedOnce /\ NumberInv)'
    BY TypeNext, HoldNext, PlacedNext, NumberNext DEF LifeInv
  <2>. QED BY <2>1, <2>2 DEF LifeInv
<1>3. LifeInv /\ [Next]_vars
        => [\/ astray'
            \/ UNCHANGED <<pool, orders, given>>
            \/ UNCHANGED Life!vars \/ Life!Next]_vars
  BY LifeStep DEF LifeKept
<1>. QED BY <1>1, <1>2, <1>3, PTL DEF Spec, PromiseKept
================================================================================
