----------------------------- MODULE PaymentProofs -----------------------------
(***************************************************************************)
(* What the payment service keeps for any number of cards, attempts,       *)
(* concurrent requests, webhook deliveries and faults.                     *)
(***************************************************************************)
EXTENDS Payment, FiniteSetTheorems, TLAPS

(* Next, with the steps of a request and of a delivery told apart. *)
LEMMA NextCases ==
  ASSUME Next
  PROVE  \/ \E r \in Request, m \in Method : Charge(r, m) \/ SetDefault(r, m)
         \/ \E r \in Request : Send(r) \/ Record(r) \/ Drop(r)
         \/ \E r \in Request : Register(r) \/ InsertMethod(r)
         \/ \E r \in Request : CommitDefault(r) \/ Cutover(r) \/ CommitCutover(r)
         \/ \E d \in Delivery, e \in Event : PersistEvent(d, e)
         \/ \E d \in Delivery : HandleEvent(d) \/ FailEvent(d)
         \/ \E a \in Attempt : Conclude(a)
         \/ \E m \in Method : Remove(m)
         \/ EnsureCustomer \/ Restart
  BY DEF Next, Requests, Webhooks

(* What a request holds, by where it is. *)
LEMMA PhaseFacts ==
  ASSUME TypeOK, NEW r \in Request
  PROVE  /\ request[r].at = "sent" =>
              /\ request[r].a \in Attempt
              /\ request[r].saw \in {"succeeded", "failed", "processing"}
         /\ request[r].at = "counted" => request[r].default \in BOOLEAN
         /\ request[r].at = "cleared" => request[r].m \in Method /\ request[r].old \subseteq Method
         /\ request[r].at = "expiring" => request[r].old \subseteq Method
         /\ request[r].at \in {"idle", "checked", "sent", "counted", "cleared", "expiring"}
  BY DEF TypeOK, Phase, Idle

LEMMA HoldFacts ==
  ASSUME TypeOK, NEW r \in Request, NEW what, Hold(r, what)
  PROVE  /\ request'[r] = what
         /\ \A s \in Request \ {r} : request'[s] = request[s]
         /\ what \in Phase => request' \in [Request -> Phase]
  BY DEF Hold, TypeOK

LEMMA IdlePhase == Idle \in Phase
  BY DEF Phase

(* The cached reference and the faults, whoever calls ensure_customer. *)
LEMMA CacheType ==
  ASSUME TypeOK, Cache
  PROVE  cached' \in BOOLEAN /\ faults' \in 0 .. MaxFaults
<1>1. cached' = TRUE \/ cached' = cached
  BY Zenon DEF Cache
<1>2. cached' \in BOOLEAN
  BY <1>1, Zenon DEF TypeOK
<1>3. faults' = faults \/ (faults < MaxFaults /\ faults' = faults + 1)
  BY DEF Cache
<1>. QED BY <1>2, <1>3, PaymentAssumption DEF TypeOK

LEMMA SendingFinite == IsFiniteSet(Sending) /\ Cardinality(Sending) \in Nat
  BY PaymentAssumption, FS_Subset, FS_CardinalityType DEF Sending

-----------------------------------------------------------------------------
(* Type correctness. *)

LEMMA TypeInit == Init => TypeOK
<1> SUFFICES ASSUME Init PROVE TypeOK
  OBVIOUS
<1>1. NoRow \in [status : {"none", "active", "removed", "expired"}, provider : Provider, default : BOOLEAN]
  BY DEF NoRow, Provider
<1>2. NoIntent \in [state : {"none", "processing", "succeeded", "failed"}, by : Provider]
  BY DEF NoIntent, Provider
<1>3. cached \in BOOLEAN
  BY DEF Init
<1>4. moved \in 0 .. MaxMoves /\ faults \in 0 .. MaxFaults
  BY PaymentAssumption DEF Init
<1>. QED BY <1>1, <1>2, <1>3, <1>4, IdlePhase DEF Init, TypeOK

LEMMA ChargeType ==
  ASSUME TypeOK, NEW r \in Request,
         (\E m \in Method : Charge(r, m)) \/ Send(r) \/ Record(r) \/ Drop(r)
  PROVE  TypeOK'
<1>1. ASSUME NEW m \in Method, Charge(r, m) PROVE TypeOK'
  <2>1. [at |-> "checked"] \in Phase
    BY DEF Phase
  <2>. QED BY <1>1, <2>1, HoldFacts DEF Charge, Begin, TypeOK, cards, money, hooks, bounds
<1>2. CASE Send(r)
  <2>1. PICK a \in Attempt, answer \in {"succeeded", "failed", "processing"} :
           /\ used' = used \union {a}
           /\ intent' = [intent EXCEPT ![a] = [state |-> answer, by |-> adapter]]
           /\ Hold(r, [at |-> "sent", a |-> a, saw |-> answer])
    BY <1>2 DEF Send, NextAttempt
  <2>2. [at |-> "sent", a |-> a, saw |-> answer] \in Phase
    BY DEF Phase
  <2>3. request' \in [Request -> Phase]
    BY <2>1, <2>2, HoldFacts
  <2>. QED BY <1>2, <2>1, <2>3 DEF Send, TypeOK, cards, hooks, bounds
<1>3. CASE Record(r)
  <2>1. StatusOf(request[r].saw) \in {"approved", "declined", "errored"} /\ request[r].a \in Attempt
    BY <1>3, PhaseFacts DEF Record, StatusOf
  <2>. QED BY <1>3, <2>1, HoldFacts, IdlePhase DEF Record, Done, TypeOK, cards, hooks, bounds
<1>4. CASE Drop(r)
  BY <1>4, HoldFacts, IdlePhase, PaymentAssumption DEF Drop, Done, TypeOK, cards, money, hooks
<1>. QED BY <1>1, <1>2, <1>3, <1>4

LEMMA CardsType ==
  ASSUME TypeOK, NEW r \in Request,
         \/ Register(r) \/ InsertMethod(r) \/ CommitDefault(r) \/ Cutover(r) \/ CommitCutover(r)
         \/ \E m \in Method : SetDefault(r, m)
  PROVE  TypeOK'
<1> USE DEF cards, money, hooks, bounds, Begin, Done
<1>1. CASE Register(r)
  <2>1. [at |-> "counted", default |-> Active = {}] \in Phase
    BY DEF Phase
  <2>. QED BY <1>1, <2>1, HoldFacts DEF Register, TypeOK
<1>2. CASE InsertMethod(r)
  <2>1. cached' \in BOOLEAN /\ faults' \in 0 .. MaxFaults
    BY <1>2, CacheType DEF InsertMethod, TypeOK
  <2>2. method' \in [Method -> [status : {"none", "active", "removed", "expired"},
                                provider : Provider, default : BOOLEAN]]
    BY <1>2, PhaseFacts DEF InsertMethod, TypeOK
  <2>. QED BY <1>2, <2>1, <2>2, HoldFacts, IdlePhase DEF InsertMethod, TypeOK
<1>3. CASE CommitDefault(r) \/ CommitCutover(r)
  <2> DEFINE Row == [status : {"none", "active", "removed", "expired"},
                     provider : Provider, default : BOOLEAN]
  <2>0. method \in [Method -> Row]
    BY DEF TypeOK
  <2>1. ASSUME NEW m \in Method
        PROVE  /\ [method[m] EXCEPT !.default = TRUE] \in Row
               /\ [method[m] EXCEPT !.default = FALSE] \in Row
               /\ [method[m] EXCEPT !.status = "expired"] \in Row
    BY <2>0
  <2> HIDE DEF Row
  <2>2. CommitDefault(r) => method' \in [Method -> Row]
    <3>1. SUFFICES ASSUME CommitDefault(r) PROVE \A m \in Method :
                     (CASE m = request[r].m -> [method[m] EXCEPT !.default = TRUE]
                        [] m \in request[r].old -> [method[m] EXCEPT !.default = FALSE]
                        [] OTHER -> method[m]) \in Row
      BY DEF CommitDefault
    <3>. QED BY <2>0, <2>1
  <2>3. CommitCutover(r) => method' \in [Method -> Row]
    BY <2>0, <2>1 DEF CommitCutover
  <2>4. method' \in [Method -> Row]
    BY <1>3, <2>2, <2>3
  <2>. QED BY <1>3, <2>4, HoldFacts, IdlePhase DEF CommitDefault, CommitCutover, TypeOK, Row
<1>4. CASE Cutover(r)
  <2>1. \A old \in SUBSET Method : [at |-> "expiring", old |-> old] \in Phase
    BY DEF Phase
  <2>2. {m \in Active : method[m].provider = "mock"} \in SUBSET Method
    BY DEF Active
  <2>. QED BY <1>4, <2>1, <2>2, HoldFacts DEF Cutover, TypeOK
<1>5. ASSUME NEW m \in Method, SetDefault(r, m) PROVE TypeOK'
  <2>1. [at |-> "cleared", m |-> m, old |-> Defaults \ {m}] \in Phase
    BY DEF Phase, Defaults
  <2>. QED BY <1>5, <2>1, HoldFacts, PaymentAssumption DEF SetDefault, TypeOK
<1>. QED BY <1>1, <1>2, <1>3, <1>4, <1>5

LEMMA HooksType ==
  ASSUME TypeOK, NEW d \in Delivery,
         (\E e \in Event : PersistEvent(d, e)) \/ HandleEvent(d) \/ FailEvent(d)
  PROVE  TypeOK'
<1> USE DEF cards, money, bounds, TypeOK
<1>1. CASE HandleEvent(d)
  <2>1. hook[d] \in Event
    BY <1>1 DEF HandleEvent
  <2>2. Route(hook[d]) \in {"noop", "reconciled", "drift"}
    BY DEF Route, RouteTerminalCharge
  <2>. QED BY <1>1, <2>1, <2>2 DEF HandleEvent
<1>. QED BY <1>1 DEF PersistEvent, FailEvent

LEMMA TypeStep == TypeOK /\ [Next]_vars => TypeOK'
<1> SUFFICES ASSUME TypeOK, [Next]_vars PROVE TypeOK'
  OBVIOUS
<1> USE DEF cards, money, hooks, bounds
<1>1. ASSUME NEW a \in Attempt, Conclude(a) PROVE TypeOK'
  BY <1>1 DEF Conclude, TypeOK
<1>2. ASSUME NEW m \in Method, Remove(m) PROVE TypeOK'
  BY <1>2 DEF Remove, TypeOK
<1>3. CASE EnsureCustomer
  BY <1>3, CacheType DEF EnsureCustomer, TypeOK
<1>4. CASE Restart
  BY <1>4, SendingFinite, IdlePhase, PaymentAssumption DEF Restart, TypeOK
<1>5. CASE UNCHANGED vars
  BY <1>5 DEF vars, TypeOK
<1>. QED BY <1>1, <1>2, <1>3, <1>4, <1>5, NextCases, ChargeType, CardsType, HooksType

(* Every reachable state of the payment service is well typed. *)
THEOREM TypeCorrect == Spec => []TypeOK
  BY TypeInit, TypeStep, PTL DEF Spec

-----------------------------------------------------------------------------
(* Webhooks. *)

(* A delivery that has inserted an event's row is alone with it, and the row was
   not there. *)
HeldOnce ==
  /\ \A d \in Delivery : hook[d] # NoEvent => outcome[hook[d]] = "none"
  /\ \A d, c \in Delivery : hook[d] # NoEvent /\ hook[d] = hook[c] => d = c

HookInv == HeldOnce /\ StagedOnce

(* The event whose kind is "none" is none of Stripe's. *)
LEMMA NoEventApart == NoEvent \notin Event
  BY PaymentAssumption DEF NoEvent, Event

LEMMA HandleHookInv ==
  ASSUME TypeOK, HookInv, NEW d \in Delivery, HandleEvent(d)
  PROVE  HookInv'
<1> DEFINE e == hook[d]
<1>1. e \in Event /\ outcome[e] = "none" /\ e # NoEvent
  BY DEF HandleEvent, HookInv, HeldOnce, TypeOK
<1>2. staged[e] = 0
  BY <1>1 DEF HookInv, StagedOnce, TypeOK
<1>3. /\ outcome'[e] = Route(e) /\ staged'[e] = (IF Stages(e) THEN 1 ELSE 0)
      /\ \A f \in Event \ {e} : outcome'[f] = outcome[f] /\ staged'[f] = staged[f]
  BY <1>1, <1>2 DEF HandleEvent, TypeOK
<1>4. Stages(e) => Route(e) \in {"reconciled", "drift"}
  BY DEF Stages, Route, RouteTerminalCharge, TerminalCharge, FailedEnd
<1>5. /\ hook'[d] = NoEvent
      /\ \A c \in Delivery \ {d} : hook'[c] = hook[c] /\ (hook[c] # NoEvent => hook[c] # e)
  BY <1>1 DEF HandleEvent, HookInv, HeldOnce, TypeOK
<1>6. StagedOnce'
  BY <1>3, <1>4 DEF HookInv, StagedOnce
<1>7. HeldOnce'
  <2>1. \A c \in Delivery : hook'[c] # NoEvent => c # d /\ hook[c] \in Event \ {e}
    BY <1>5 DEF TypeOK
  <2>. QED BY <2>1, <1>3, <1>5 DEF HookInv, HeldOnce
<1>. QED BY <1>6, <1>7 DEF HookInv

LEMMA HookStep == TypeOK /\ HookInv /\ [Next]_vars => HookInv'
<1> SUFFICES ASSUME TypeOK, HookInv, [Next]_vars PROVE HookInv'
  OBVIOUS
<1> USE DEF HookInv, HeldOnce, StagedOnce
<1>1. ASSUME NEW d \in Delivery, NEW e \in Event, PersistEvent(d, e) PROVE HookInv'
  BY <1>1 DEF PersistEvent, Claimable, TypeOK
<1>2. ASSUME NEW d \in Delivery, FailEvent(d) PROVE HookInv'
  BY <1>2 DEF FailEvent, TypeOK
<1>3. CASE Restart
  BY <1>3 DEF Restart, TypeOK
<1>4. CASE UNCHANGED hooks
  BY <1>4 DEF hooks
<1>5. \/ \E r \in Request, m \in Method : Charge(r, m) \/ SetDefault(r, m)
      \/ \E r \in Request : Send(r) \/ Record(r) \/ Drop(r)
      \/ \E r \in Request : Register(r) \/ InsertMethod(r)
      \/ \E r \in Request : CommitDefault(r) \/ Cutover(r) \/ CommitCutover(r)
      \/ \E a \in Attempt : Conclude(a)
      \/ \E m \in Method : Remove(m)
      \/ EnsureCustomer \/ UNCHANGED vars
      => UNCHANGED hooks
  BY DEF Charge, SetDefault, Send, Record, Drop, Register, InsertMethod, CommitDefault, Cutover,
         CommitCutover, Conclude, Remove, EnsureCustomer, vars, hooks
<1>. QED BY <1>1, <1>2, <1>3, <1>4, <1>5, NextCases, HandleHookInv

(* Whatever Stripe delivers, however often and at once, an event's domain event is
   staged at most once and in the transaction that records the outcome. *)
THEOREM StagedAtMostOnce == Spec => []StagedOnce
<1>1. Init => HookInv
  BY DEF Init, HookInv, HeldOnce, StagedOnce
<1>2. HookInv => StagedOnce
  BY DEF HookInv
<1>. QED BY <1>1, <1>2, HookStep, TypeCorrect, PTL DEF Spec

-----------------------------------------------------------------------------
(* The cap on cards. *)

Counted == {r \in Request : request[r].at = "counted"}

(* Each request that has counted and not inserted yet has a card coming. *)
CapInv == Cardinality(Active) + Cardinality(Counted) < MaxMethods + Cardinality(Request)

LEMMA CapFinite ==
  /\ IsFiniteSet(Active) /\ Cardinality(Active) \in Nat
  /\ IsFiniteSet(Counted) /\ Cardinality(Counted) \in Nat
  /\ Cardinality(Counted) <= Cardinality(Request) /\ Cardinality(Request) \in Nat
  BY PaymentAssumption, FS_Subset, FS_CardinalityType DEF Active, Counted

(* No card more, no request more: the sum does not grow. *)
LEMMA CapShrinks ==
  ASSUME CapInv, Active' \subseteq Active, Counted' \subseteq Counted
  PROVE  CapInv'
<1>1. Cardinality(Active') <= Cardinality(Active) /\ Cardinality(Active') \in Nat
  BY CapFinite, FS_Subset, FS_CardinalityType
<1>2. Cardinality(Counted') <= Cardinality(Counted) /\ Cardinality(Counted') \in Nat
  BY CapFinite, FS_Subset, FS_CardinalityType
<1>. QED BY <1>1, <1>2, CapFinite, PaymentAssumption DEF CapInv

(* The cards of a step that is not an insert are the cards it found. *)
LEMMA CardsShrink ==
  ASSUME TypeOK, [Next]_vars, ~ \E r \in Request : InsertMethod(r)
  PROVE  Active' \subseteq Active
<1>1. method' = method => Active' \subseteq Active
  BY DEF Active
<1>2. ASSUME NEW r \in Request, CommitDefault(r) \/ CommitCutover(r) PROVE Active' \subseteq Active
  BY <1>2 DEF CommitDefault, CommitCutover, Active, TypeOK
<1>3. ASSUME NEW m \in Method, Remove(m) PROVE Active' \subseteq Active
  BY <1>3 DEF Remove, Active, TypeOK
<1>4. \/ \E r \in Request, m \in Method : Charge(r, m) \/ SetDefault(r, m)
      \/ \E r \in Request : Send(r) \/ Record(r) \/ Drop(r) \/ Register(r) \/ Cutover(r)
      \/ \E d \in Delivery, e \in Event : PersistEvent(d, e)
      \/ \E d \in Delivery : HandleEvent(d) \/ FailEvent(d)
      \/ \E a \in Attempt : Conclude(a)
      \/ EnsureCustomer \/ Restart \/ UNCHANGED vars
      => method' = method
  BY DEF Charge, SetDefault, Send, Record, Drop, Register, Cutover, PersistEvent, HandleEvent,
         FailEvent, Conclude, EnsureCustomer, Restart, vars, cards
<1>. QED BY <1>1, <1>2, <1>3, <1>4, NextCases

(* Only register_method counts. *)
LEMMA CountedShrinks ==
  ASSUME TypeOK, [Next]_vars, ~ \E r \in Request : Register(r)
  PROVE  Counted' \subseteq Counted
<1>1. request' = request => Counted' \subseteq Counted
  BY DEF Counted
<1>2. ASSUME NEW r \in Request, NEW what, Hold(r, what), what.at # "counted"
      PROVE  Counted' \subseteq Counted
  BY <1>2, HoldFacts DEF Counted
<1>3. ASSUME NEW r \in Request, NEW m \in Method, Charge(r, m) \/ SetDefault(r, m)
      PROVE  Counted' \subseteq Counted
  BY <1>2, <1>3 DEF Charge, SetDefault, Begin
<1>4. ASSUME NEW r \in Request, Send(r) \/ Record(r) \/ Drop(r) PROVE Counted' \subseteq Counted
  BY <1>2, <1>4 DEF Send, Record, Drop, Done, Idle
<1>5. ASSUME NEW r \in Request, InsertMethod(r) \/ CommitDefault(r) \/ Cutover(r) \/ CommitCutover(r)
      PROVE  Counted' \subseteq Counted
  BY <1>2, <1>5 DEF InsertMethod, CommitDefault, Cutover, CommitCutover, Begin, Done, Idle
<1>6. CASE Restart
  BY <1>6 DEF Restart, Counted, Idle
<1>7. \/ \E d \in Delivery, e \in Event : PersistEvent(d, e)
      \/ \E d \in Delivery : HandleEvent(d) \/ FailEvent(d)
      \/ \E a \in Attempt : Conclude(a)
      \/ \E m \in Method : Remove(m)
      \/ EnsureCustomer \/ UNCHANGED vars
      => request' = request
  BY DEF PersistEvent, HandleEvent, FailEvent, Conclude, Remove, EnsureCustomer, vars
<1>. QED BY <1>1, <1>3, <1>4, <1>5, <1>6, <1>7, NextCases

LEMMA CapStep == TypeOK /\ CapInv /\ [Next]_vars => CapInv'
<1> SUFFICES ASSUME TypeOK, CapInv, [Next]_vars PROVE CapInv'
  OBVIOUS
<1>1. ASSUME NEW r \in Request, Register(r) PROVE CapInv'
  <2>1. Active' = Active /\ Cardinality(Active) < MaxMethods
    BY <1>1 DEF Register, WithinCap, Active, cards
  <2>2. Counted' \in SUBSET Request
    BY DEF Counted
  <2>3. Cardinality(Counted') <= Cardinality(Request) /\ Cardinality(Counted') \in Nat
    BY <2>2, PaymentAssumption, FS_Subset, FS_CardinalityType
  <2>. QED BY <2>1, <2>3, CapFinite, PaymentAssumption DEF CapInv
<1>2. ASSUME NEW r \in Request, InsertMethod(r) PROVE CapInv'
  <2>1. PICK m \in Method, p \in Provider :
           method' = [method EXCEPT ![m] =
               [status |-> "active", provider |-> p, default |-> request[r].default]]
    BY <1>2 DEF InsertMethod
  <2>2. Active' \subseteq Active \union {m}
    BY <2>1 DEF Active, TypeOK
  <2>3. Cardinality(Active') <= Cardinality(Active) + 1 /\ Cardinality(Active') \in Nat
    <3>1. IsFiniteSet(Active \union {m}) /\ Cardinality(Active \union {m}) <= Cardinality(Active) + 1
      <4>1. IsFiniteSet(Active) /\ Cardinality(Active) \in Nat
        BY CapFinite
      <4>2. /\ IsFiniteSet(Active \union {m})
            /\ \/ Cardinality(Active \union {m}) = Cardinality(Active)
               \/ Cardinality(Active \union {m}) = Cardinality(Active) + 1
        BY <4>1, FS_AddElement
      <4>. QED BY <4>1, <4>2
    <3>2. Active' \in SUBSET (Active \union {m})
      BY <2>2
    <3>3. Cardinality(Active \union {m}) \in Nat
      BY <3>1, FS_CardinalityType
    <3>4. Cardinality(Active') <= Cardinality(Active \union {m}) /\ Cardinality(Active') \in Nat
      BY <3>1, <3>2, FS_Subset, FS_CardinalityType
    <3>. QED BY <3>1, <3>3, <3>4, CapFinite
  <2>4. r \in Counted /\ Counted' = Counted \ {r}
    BY <1>2, HoldFacts DEF InsertMethod, Done, Idle, Counted
  <2>5. Cardinality(Counted') = Cardinality(Counted) - 1
    BY <2>4, CapFinite, FS_RemoveElement
  <2>. QED BY <2>3, <2>5, CapFinite, PaymentAssumption DEF CapInv
<1>. QED BY <1>1, <1>2, CardsShrink, CountedShrinks, CapShrinks

(* The cap on active cards is exceeded by fewer cards than there are requests in
   flight: the first of them counted within the cap. *)
THEOREM CapNearlyHolds == Spec => []CapHolds
<1>1. Init => CapInv
  <2> SUFFICES ASSUME Init PROVE CapInv
    OBVIOUS
  <2>1. Active = {} /\ Counted = {}
    BY DEF Init, Active, Counted, NoRow, Idle
  <2>2. Cardinality(Request) # 0
    BY PaymentAssumption, FS_EmptySet
  <2>. QED BY <2>1, <2>2, FS_EmptySet, CapFinite, PaymentAssumption DEF CapInv
<1>2. CapInv => CapHolds
  BY CapFinite, PaymentAssumption DEF CapInv, CapHolds
<1>. QED BY <1>1, <1>2, CapStep, TypeCorrect, PTL DEF Spec

-----------------------------------------------------------------------------
(* Money. *)

Held == {request[r].a : r \in Sending}

(* Attempts whose number was given out, without a row and in no request's hand. *)
Orphan == {a \in used : attempt[a] = "none"} \ Held

(* An attempt exists at the provider, and has a row, only once its number was given out. *)
Numbered == \A a \in Attempt \ used : intent[a].state = "none" /\ attempt[a] = "none"

(* A row says what the provider said. *)
RowsAgree ==
  \A a \in Attempt : /\ attempt[a] = "approved" => intent[a].state = "succeeded"
                     /\ attempt[a] = "declined" => intent[a].state = "failed"

(* A request waiting to write its row has a number of its own, no row for it yet, and
   what it saw is final unless Stripe was still at it. *)
InHand ==
  /\ \A r \in Sending :
       /\ request[r].a \in used /\ attempt[request[r].a] = "none"
       /\ request[r].saw = "processing" \/ request[r].saw = intent[request[r].a].state
  /\ \A r, s \in Sending : request[r].a = request[s].a => r = s

OrphansPaid == Cardinality(Orphan) <= faults

MoneyInv == Numbered /\ RowsAgree /\ InHand /\ OrphansPaid

LEMMA OrphanFinite ==
  ASSUME TypeOK
  PROVE  /\ IsFiniteSet(Orphan) /\ Cardinality(Orphan) \in Nat
         /\ IsFiniteSet(Held) /\ Cardinality(Held) <= Cardinality(Sending)
<1>1. Orphan \in SUBSET Attempt
  BY DEF Orphan, TypeOK
<1>2. [r \in Sending |-> request[r].a] \in Surjection(Sending, Held)
  BY DEF Held, Surjection
<1>. QED BY <1>1, <1>2, PaymentAssumption, SendingFinite, FS_Subset, FS_CardinalityType, FS_Surjection

(* Nothing of the money changes hands, and no request that holds some is touched. *)
LEMMA MoneyQuiet ==
  ASSUME TypeOK, MoneyInv, UNCHANGED money, faults <= faults', faults' \in Nat, Sending' = Sending,
         \A r \in Sending : request'[r] = request[r]
  PROVE  MoneyInv'
<1>1. Held' = Held /\ Orphan' = Orphan
  BY DEF Held, Orphan, money
<1>2. Numbered' /\ RowsAgree' /\ InHand'
  BY DEF MoneyInv, Numbered, RowsAgree, InHand, money
<1>3. OrphansPaid'
  BY <1>1, OrphanFinite DEF MoneyInv, OrphansPaid, TypeOK
<1>. QED BY <1>2, <1>3 DEF MoneyInv

(* A request that neither is about to write a row nor becomes so. *)
LEMMA HoldQuiet ==
  ASSUME TypeOK, MoneyInv, UNCHANGED money, NEW r \in Request, NEW what, Hold(r, what),
         request[r].at # "sent", what.at # "sent", faults <= faults', faults' \in Nat
  PROVE  MoneyInv'
<1>1. Sending' = Sending /\ \A s \in Sending : request'[s] = request[s]
  BY HoldFacts DEF Sending
<1>. QED BY <1>1, MoneyQuiet

LEMMA SendMoney ==
  ASSUME TypeOK, MoneyInv, NEW r \in Request, Send(r)
  PROVE  MoneyInv'
<1>1. PICK a \in Attempt \ used, answer \in {"succeeded", "failed", "processing"} :
         /\ used' = used \union {a}
         /\ intent' = [intent EXCEPT ![a] = [state |-> answer, by |-> adapter]]
         /\ Hold(r, [at |-> "sent", a |-> a, saw |-> answer])
  BY DEF Send, NextAttempt
<1>2. /\ attempt' = attempt /\ faults' = faults /\ attempt[a] = "none" /\ r \notin Sending
      /\ Sending' = Sending \union {r}
      /\ request'[r].a = a /\ request'[r].saw = answer
      /\ \A s \in Sending : request'[s] = request[s] /\ request[s].a # a /\ request[s].a \in Attempt
  BY <1>1, HoldFacts, PhaseFacts DEF Send, Sending, MoneyInv, Numbered, InHand, bounds
<1>3. intent'[a].state = answer /\ \A b \in Attempt \ {a} : intent'[b] = intent[b]
  BY <1>1 DEF TypeOK
<1>4. Numbered' /\ RowsAgree'
  BY <1>1, <1>2, <1>3 DEF MoneyInv, Numbered, RowsAgree
<1>5. InHand'
  BY <1>1, <1>2, <1>3 DEF MoneyInv, InHand
<1>6. Held' = Held \union {a}
  BY <1>2 DEF Held
<1>7. Orphan' = Orphan
  BY <1>1, <1>2, <1>6 DEF Orphan
<1>. QED BY <1>2, <1>4, <1>5, <1>7 DEF MoneyInv, OrphansPaid

LEMMA RecordMoney ==
  ASSUME TypeOK, MoneyInv, NEW r \in Request, Record(r)
  PROVE  MoneyInv'
<1> DEFINE a == request[r].a
<1>1. r \in Sending /\ a \in used /\ a \in Attempt
  BY PhaseFacts DEF Record, Sending, MoneyInv, InHand
<1>2. /\ attempt'[a] = StatusOf(request[r].saw) /\ attempt'[a] # "none"
      /\ \A b \in Attempt \ {a} : attempt'[b] = attempt[b]
      /\ used' = used /\ intent' = intent /\ faults' = faults
  BY <1>1 DEF Record, StatusOf, TypeOK, bounds
<1>3. /\ Sending' = Sending \ {r}
      /\ \A s \in Sending \ {r} : request'[s] = request[s] /\ request[s].a # a
  BY <1>1, HoldFacts DEF Record, Done, Idle, Sending, MoneyInv, InHand
<1>4. /\ attempt'[a] = "approved" => intent[a].state = "succeeded"
      /\ attempt'[a] = "declined" => intent[a].state = "failed"
  BY <1>1, <1>2 DEF StatusOf, MoneyInv, InHand
<1>5. Numbered' /\ RowsAgree'
  BY <1>1, <1>2, <1>4 DEF MoneyInv, Numbered, RowsAgree
<1>6. InHand'
  <2>1. \A s \in Sending : request[s].a \in Attempt
    BY PhaseFacts DEF Sending
  <2>. QED BY <1>2, <1>3, <2>1 DEF MoneyInv, InHand
<1>7. Held' = Held \ {a}
  BY <1>1, <1>3 DEF Held
<1>8. Orphan' = Orphan
  <2>1. a \in Held /\ used \subseteq Attempt
    BY <1>1 DEF Held, TypeOK
  <2>2. \A b \in used : b # a => attempt'[b] = attempt[b]
    BY <1>2, <2>1
  <2>. QED BY <1>2, <1>7, <2>1, <2>2 DEF Orphan
<1>. QED BY <1>2, <1>5, <1>6, <1>8 DEF MoneyInv, OrphansPaid

LEMMA DropMoney ==
  ASSUME TypeOK, MoneyInv, NEW r \in Request, Drop(r)
  PROVE  MoneyInv'
<1>1. CASE r \notin Sending
  BY <1>1, HoldQuiet DEF Drop, Done, Idle, Sending, TypeOK
<1>2. CASE r \in Sending
  <2>1. UNCHANGED money /\ faults' = faults + 1
    BY <1>2 DEF Drop
  <2>2. Sending' = Sending \ {r} /\ \A s \in Sending \ {r} : request'[s] = request[s]
    BY HoldFacts DEF Drop, Done, Idle, Sending
  <2>3. Numbered' /\ RowsAgree' /\ InHand'
    BY <2>1, <2>2 DEF MoneyInv, Numbered, RowsAgree, InHand, money
  <2>4. Orphan' \in SUBSET (Orphan \union {request[r].a})
    BY <2>1, <2>2 DEF Orphan, Held, money
  <2>5. /\ IsFiniteSet(Orphan \union {request[r].a})
        /\ Cardinality(Orphan \union {request[r].a}) <= Cardinality(Orphan) + 1
        /\ Cardinality(Orphan) \in Nat
    <3>1. IsFiniteSet(Orphan) /\ Cardinality(Orphan) \in Nat
      BY OrphanFinite
    <3>. QED BY <3>1, FS_AddElement
  <2>6. /\ Cardinality(Orphan') <= Cardinality(Orphan \union {request[r].a})
        /\ Cardinality(Orphan') \in Nat /\ Cardinality(Orphan \union {request[r].a}) \in Nat
    BY <2>4, <2>5, FS_Subset, FS_CardinalityType
  <2>7. OrphansPaid'
    BY <2>1, <2>5, <2>6 DEF MoneyInv, OrphansPaid, TypeOK
  <2>. QED BY <2>3, <2>7 DEF MoneyInv
<1>. QED BY <1>1, <1>2

LEMMA RestartMoney ==
  ASSUME TypeOK, MoneyInv, Restart
  PROVE  MoneyInv'
<1>1. UNCHANGED money /\ faults' = faults + Cardinality(Sending) /\ Sending' = {}
  BY DEF Restart, Sending, Idle
<1>2. Numbered' /\ RowsAgree' /\ InHand'
  BY <1>1 DEF MoneyInv, Numbered, RowsAgree, InHand, money
<1>3. Orphan' \in SUBSET (Orphan \union Held)
  BY <1>1 DEF Orphan, Held, money
<1>4. /\ IsFiniteSet(Orphan \union Held)
      /\ Cardinality(Orphan \union Held) <= Cardinality(Orphan) + Cardinality(Held)
      /\ Cardinality(Orphan \union Held) \in Nat /\ Cardinality(Held) \in Nat
  <2>1. IsFiniteSet(Orphan) /\ IsFiniteSet(Held)
    BY OrphanFinite
  <2>2. /\ IsFiniteSet(Orphan \union Held)
        /\ Cardinality(Orphan \union Held)
             = Cardinality(Orphan) + Cardinality(Held) - Cardinality(Orphan \cap Held)
    BY <2>1, FS_Union
  <2>3. Orphan \cap Held = {}
    BY DEF Orphan
  <2>4. Cardinality(Orphan \cap Held) = 0
    BY <2>3, FS_EmptySet
  <2>5. Cardinality(Orphan) \in Nat /\ Cardinality(Held) \in Nat /\ Cardinality(Orphan \union Held) \in Nat
    BY <2>1, <2>2, FS_CardinalityType
  <2>. QED BY <2>2, <2>4, <2>5
<1>5. Cardinality(Orphan') <= Cardinality(Orphan \union Held) /\ Cardinality(Orphan') \in Nat
  BY <1>3, <1>4, FS_Subset, FS_CardinalityType
<1>6. OrphansPaid'
  BY <1>1, <1>4, <1>5, OrphanFinite, SendingFinite DEF MoneyInv, OrphansPaid, TypeOK
<1>. QED BY <1>2, <1>6 DEF MoneyInv

LEMMA MoneyStep == TypeOK /\ MoneyInv /\ [Next]_vars => MoneyInv'
<1> SUFFICES ASSUME TypeOK, MoneyInv, [Next]_vars PROVE MoneyInv'
  OBVIOUS
<1>1. ASSUME NEW r \in Request, NEW m \in Method, Charge(r, m) \/ SetDefault(r, m) PROVE MoneyInv'
  BY <1>1, HoldQuiet DEF Charge, SetDefault, Begin, Idle, bounds, TypeOK
<1>2. ASSUME NEW r \in Request, Register(r) \/ Cutover(r) \/ CommitDefault(r) \/ CommitCutover(r)
      PROVE  MoneyInv'
  BY <1>2, HoldQuiet DEF Register, Cutover, CommitDefault, CommitCutover, Begin, Done, Idle, bounds, TypeOK
<1>3. ASSUME NEW r \in Request, InsertMethod(r) PROVE MoneyInv'
  <2>1. faults <= faults' /\ faults' \in Nat /\ UNCHANGED money
    BY <1>3 DEF InsertMethod, Cache, TypeOK
  <2>. QED BY <1>3, <2>1, HoldQuiet DEF InsertMethod, Done, Idle
<1>4. ASSUME NEW a \in Attempt, Conclude(a) PROVE MoneyInv'
  <2>1. PICK s \in {"succeeded", "failed"} : intent' = [intent EXCEPT ![a].state = s]
    BY <1>4 DEF Conclude
  <2>2. /\ intent[a].state = "processing" /\ UNCHANGED <<attempt, used, request, faults>>
        /\ \A b \in Attempt \ {a} : intent'[b] = intent[b]
    BY <1>4, <2>1 DEF Conclude, TypeOK, bounds
  <2>3. Sending' = Sending /\ Held' = Held /\ Orphan' = Orphan
    BY <2>2 DEF Sending, Held, Orphan
  <2>4. Numbered' /\ RowsAgree' /\ InHand'
    BY <2>2, <2>3, PhaseFacts DEF MoneyInv, Numbered, RowsAgree, InHand, Sending
  <2>. QED BY <2>2, <2>3, <2>4 DEF MoneyInv, OrphansPaid
<1>5. \/ \E d \in Delivery, e \in Event : PersistEvent(d, e)
      \/ \E d \in Delivery : HandleEvent(d) \/ FailEvent(d)
      \/ \E m \in Method : Remove(m)
      \/ EnsureCustomer \/ UNCHANGED vars
      => request' = request /\ UNCHANGED money /\ faults <= faults' /\ faults' \in Nat
  BY DEF PersistEvent, HandleEvent, FailEvent, Remove, EnsureCustomer, Cache, vars, money, bounds, TypeOK
<1>6. ASSUME request' = request, UNCHANGED money, faults <= faults', faults' \in Nat
      PROVE  MoneyInv'
  BY <1>6, MoneyQuiet DEF Sending
<1>. QED BY <1>1, <1>2, <1>3, <1>4, <1>5, <1>6, NextCases, SendMoney, RecordMoney, DropMoney, RestartMoney

(* A row never says more than the provider did, and money taken without a row is in
   the hand of a request or was dropped by a fault, one charge for each. *)
THEOREM MoneyIsAccounted == Spec => []MoneyAccounted
<1>1. Init => MoneyInv
  <2> SUFFICES ASSUME Init PROVE MoneyInv
    OBVIOUS
  <2>1. Sending = {} /\ Orphan = {}
    BY DEF Init, Sending, Orphan, Idle
  <2>. QED BY <2>1, FS_EmptySet DEF Init, MoneyInv, Numbered, RowsAgree, InHand, OrphansPaid, NoIntent
<1>2. TypeOK /\ MoneyInv => MoneyAccounted
  <2> SUFFICES ASSUME TypeOK, MoneyInv PROVE MoneyAccounted
    OBVIOUS
  <2> DEFINE taken == {a \in Attempt : intent[a].state = "succeeded" /\ attempt[a] = "none"}
  <2>1. taken \ Held \in SUBSET Orphan
    BY DEF MoneyInv, Numbered, Orphan
  <2>2. Cardinality(taken \ Held) <= Cardinality(Orphan) /\ Cardinality(taken \ Held) \in Nat
    BY <2>1, OrphanFinite, FS_Subset, FS_CardinalityType
  <2>3. Cardinality(taken \ Held) <= faults
    BY <2>2, OrphanFinite DEF MoneyInv, OrphansPaid, TypeOK
  <2>4. RowsAgree
    BY DEF MoneyInv
  <2> HIDE DEF taken
  <2>5. Cardinality(taken \ {request[r].a : r \in Sending}) <= faults
    BY <2>3 DEF Held
  <2>. QED BY <2>4, <2>5 DEF MoneyAccounted, RowsAgree, taken
<1>. QED BY <1>1, <1>2, MoneyStep, TypeCorrect, PTL DEF Spec

-----------------------------------------------------------------------------
(* Refinement: payment keeps its promise to those who charge and those who listen. *)

(* What a delivery is about to handle has happened at the provider. *)
HooksIssued == \A d \in Delivery, e \in Event : hook[d] = e => Issued(e)

(* A number is given out in the step that calls the provider. *)
Tried == \A a \in used : intent[a].state # "none"

PromiseInv == HooksIssued /\ Tried

(* The end of an intent is final. *)
LEMMA IssuedStays ==
  ASSUME TypeOK, MoneyInv, [Next]_vars, NEW e \in Event, Issued(e)
  PROVE  Issued(e)'
<1>1. e[1] \in Attempt /\ intent[e[1]].state \in {"succeeded", "failed"}
  BY DEF Event, Issued
<1>2. SUFFICES intent'[e[1]] = intent[e[1]]
  BY DEF Issued
<1>3. ASSUME NEW r \in Request, Send(r) PROVE intent'[e[1]] = intent[e[1]]
  <2>1. PICK a \in Attempt \ used, answer \in {"succeeded", "failed", "processing"} :
           intent' = [intent EXCEPT ![a] = [state |-> answer, by |-> adapter]]
    BY <1>3 DEF Send, NextAttempt
  <2>2. a # e[1]
    BY <1>1, <2>1 DEF MoneyInv, Numbered
  <2>. QED BY <1>1, <2>1, <2>2 DEF TypeOK
<1>4. ASSUME NEW a \in Attempt, Conclude(a) PROVE intent'[e[1]] = intent[e[1]]
  <2>1. PICK s \in {"succeeded", "failed"} : intent' = [intent EXCEPT ![a].state = s]
    BY <1>4 DEF Conclude
  <2>2. a # e[1]
    BY <1>1, <1>4 DEF Conclude
  <2>. QED BY <1>1, <2>1, <2>2 DEF TypeOK
<1>5. \/ intent' = intent
      \/ \E r \in Request : Send(r)
      \/ \E a \in Attempt : Conclude(a)
  BY NextCases DEF Charge, SetDefault, Record, Drop, Register, InsertMethod, CommitDefault, Cutover,
     CommitCutover, PersistEvent, HandleEvent, FailEvent, Remove, EnsureCustomer, Restart, money, vars
<1>. QED BY <1>3, <1>4, <1>5

LEMMA HooksIssuedStep == TypeOK /\ MoneyInv /\ HooksIssued /\ [Next]_vars => HooksIssued'
<1> SUFFICES ASSUME TypeOK, MoneyInv, HooksIssued, [Next]_vars,
                    NEW d \in Delivery, NEW e \in Event, hook'[d] = e
             PROVE  Issued(e)'
  BY DEF HooksIssued
<1>1. hook[d] = e \/ Issued(e)
  <2>1. ASSUME NEW c \in Delivery, NEW x \in Event, PersistEvent(c, x) PROVE hook[d] = e \/ Issued(e)
    BY <2>1 DEF PersistEvent, TypeOK
  <2>2. ASSUME NEW c \in Delivery, HandleEvent(c) \/ FailEvent(c) PROVE hook[d] = e
    BY <2>2, NoEventApart DEF HandleEvent, FailEvent, TypeOK
  <2>3. CASE Restart
    BY <2>3, NoEventApart DEF Restart
  <2>4. \/ hook' = hook \/ Restart
        \/ \E c \in Delivery, x \in Event : PersistEvent(c, x)
        \/ \E c \in Delivery : HandleEvent(c) \/ FailEvent(c)
    BY NextCases DEF Charge, SetDefault, Send, Record, Drop, Register, InsertMethod, CommitDefault,
       Cutover, CommitCutover, Conclude, Remove, EnsureCustomer, hooks, vars
  <2>. QED BY <2>1, <2>2, <2>3, <2>4
<1>2. Issued(e)
  BY <1>1 DEF HooksIssued
<1>. QED BY <1>2, IssuedStays

LEMMA TriedStep == TypeOK /\ Tried /\ [Next]_vars => Tried'
<1> SUFFICES ASSUME TypeOK, Tried, [Next]_vars PROVE Tried'
  OBVIOUS
<1>1. ASSUME NEW r \in Request, Send(r) PROVE Tried'
  <2>1. PICK a \in Attempt, answer \in {"succeeded", "failed", "processing"} :
           /\ used' = used \union {a}
           /\ intent' = [intent EXCEPT ![a] = [state |-> answer, by |-> adapter]]
    BY <1>1 DEF Send, NextAttempt
  <2>2. intent'[a].state # "none" /\ \A b \in Attempt \ {a} : intent'[b] = intent[b]
    BY <2>1 DEF TypeOK
  <2>. QED BY <2>1, <2>2 DEF Tried, TypeOK
<1>2. ASSUME NEW a \in Attempt, Conclude(a) PROVE Tried'
  <2>1. PICK s \in {"succeeded", "failed"} : intent' = [intent EXCEPT ![a].state = s]
    BY <1>2 DEF Conclude
  <2>2. intent'[a].state # "none" /\ \A b \in Attempt \ {a} : intent'[b] = intent[b]
    BY <2>1 DEF TypeOK
  <2>. QED BY <1>2, <2>2 DEF Conclude, Tried, TypeOK
<1>3. \/ UNCHANGED <<intent, used>>
      \/ \E r \in Request : Send(r)
      \/ \E a \in Attempt : Conclude(a)
  BY NextCases DEF Charge, SetDefault, Record, Drop, Register, InsertMethod, CommitDefault, Cutover,
     CommitCutover, PersistEvent, HandleEvent, FailEvent, Remove, EnsureCustomer, Restart, money, vars
<1>. QED BY <1>1, <1>2, <1>3 DEF Tried

Told == {e \in Event : staged[e] > 0}
States == [a \in Attempt |-> intent[a].state]

LEMMA SendTries ==
  ASSUME TypeOK, MoneyInv, NEW r \in Request, Send(r)
  PROVE  Promise!Next
<1>1. PICK a \in Attempt \ used, answer \in {"succeeded", "failed", "processing"} :
         intent' = [intent EXCEPT ![a] = [state |-> answer, by |-> adapter]]
  BY DEF Send, NextAttempt
<1>2. States[a] = "none" /\ States' = [States EXCEPT ![a] = answer]
  BY <1>1 DEF States, MoneyInv, Numbered, TypeOK
<1>3. Told' = Told /\ attempt' = attempt
  BY DEF Send, Told, hooks
<1>4. Promise!Try(a)
  BY <1>2, <1>3 DEF Promise!Try, States, Told
<1>. QED BY <1>4 DEF Promise!Next

LEMMA ConcludeConcludes ==
  ASSUME TypeOK, NEW a \in Attempt, Conclude(a)
  PROVE  Promise!Next
<1>1. PICK s \in {"succeeded", "failed"} : intent' = [intent EXCEPT ![a].state = s]
  BY DEF Conclude
<1>2. States[a] = "processing" /\ States' = [States EXCEPT ![a] = s]
  BY <1>1 DEF States, Conclude, TypeOK
<1>3. Told' = Told /\ attempt' = attempt
  BY DEF Conclude, Told, hooks
<1>4. Promise!Conclude(a)
  BY <1>2, <1>3 DEF Promise!Conclude, States, Told
<1>. QED BY <1>4 DEF Promise!Next

LEMMA RecordWrites ==
  ASSUME TypeOK, MoneyInv, Tried, NEW r \in Request, Record(r)
  PROVE  Promise!Next
<1> DEFINE a == request[r].a
           status == StatusOf(request[r].saw)
<1>1. /\ a \in Attempt /\ a \in used /\ attempt[a] = "none"
      /\ request[r].saw \in {"succeeded", "failed", "processing"}
      /\ request[r].saw = "processing" \/ request[r].saw = intent[a].state
  BY PhaseFacts DEF Record, Sending, MoneyInv, InHand
<1>2. attempt' = [attempt EXCEPT ![a] = status] /\ States' = States /\ Told' = Told
  BY DEF Record, States, Told, hooks
<1>3. /\ status \in {"approved", "declined", "errored"}
      /\ status = "approved" => States[a] = "succeeded"
      /\ status = "declined" => States[a] = "failed"
  BY <1>1 DEF StatusOf, States
<1>4. States[a] # "none"
  BY <1>1 DEF States, Tried
<1> HIDE DEF a, status
<1>5. Promise!Write(a)
  BY <1>1, <1>2, <1>3, <1>4 DEF Promise!Write, States, Told
<1>. QED BY <1>1, <1>5 DEF Promise!Next

LEMMA HandleTells ==
  ASSUME TypeOK, MoneyInv, HookInv, HooksIssued, NEW d \in Delivery, HandleEvent(d)
  PROVE  Promise!Next \/ UNCHANGED <<States, attempt, Told>>
<1>0. PICK e \in Event : hook[d] = e
  BY DEF HandleEvent, TypeOK
<1>1. /\ e \in Event /\ e[1] \in Attempt /\ e[2] \in Kind /\ Issued(e)
      /\ outcome[e] = "none" /\ staged[e] \in Nat /\ staged[e] <= 0
  BY <1>0, NoEventApart DEF HooksIssued, HookInv, HeldOnce, StagedOnce, TypeOK, Event
<1>2. States' = States /\ attempt' = attempt
  BY DEF HandleEvent, States, money
<1>3. staged' = [staged EXCEPT ![e] = @ + (IF Stages(e) THEN 1 ELSE 0)]
  BY <1>0 DEF HandleEvent
<1>4. /\ staged'[e] = staged[e] + (IF Stages(e) THEN 1 ELSE 0)
      /\ \A x \in Event \ {e} : staged'[x] = staged[x]
  BY <1>1, <1>3 DEF TypeOK
<1>5. e \notin Told
  BY <1>1 DEF Told
<1>6. CASE ~Stages(e)
  <2>1. staged'[e] = staged[e]
    BY <1>1, <1>4, <1>6
  <2>2. Told' = Told
    BY <1>4, <2>1 DEF Told
  <2>. QED BY <1>2, <2>2
<1>7. CASE Stages(e)
  <2>1. staged'[e] > 0
    BY <1>1, <1>4, <1>7
  <2>2. Told' = Told \union {e}
    BY <1>1, <1>4, <2>1 DEF Told
  <2>3. States[e[1]] = IF e[2] \in Promise!Failing THEN "failed" ELSE "succeeded"
    BY <1>1 DEF Issued, FailedEnd, Promise!Failing, States
  <2>4. e[2] \in Promise!Ending => attempt[e[1]] = "errored"
    BY <1>1, <1>7, <2>3
       DEF Promise!Ending, Promise!Failing, FailedEnd, TerminalCharge, Stages, Route,
           RouteTerminalCharge, Expected, States, MoneyInv, RowsAgree, TypeOK
  <2>5. Promise!Tell(e)
    BY <1>2, <1>5, <2>2, <2>3, <2>4 DEF Promise!Tell, States, Told
  <2>6. e \in Promise!Event
    BY <1>1 DEF Promise!Event, Event
  <2>. QED BY <2>5, <2>6 DEF Promise!Next
<1>. QED BY <1>6, <1>7

LEMMA PromiseStep ==
  TypeOK /\ MoneyInv /\ HookInv /\ PromiseInv /\ [Next]_vars => [Promise!Next]_(Promise!vars)
<1> SUFFICES ASSUME TypeOK, MoneyInv, HookInv, HooksIssued, Tried, [Next]_vars
             PROVE  Promise!Next \/ UNCHANGED Promise!vars
  BY DEF PromiseInv
<1>1. UNCHANGED <<States, attempt, Told>> => UNCHANGED Promise!vars
  BY DEF Promise!vars, States, Told
<1>2. UNCHANGED <<intent, attempt, staged>> => UNCHANGED <<States, attempt, Told>>
  BY DEF States, Told
<1>3. \/ UNCHANGED <<intent, attempt, staged>>
      \/ \E r \in Request : Send(r) \/ Record(r)
      \/ \E a \in Attempt : Conclude(a)
      \/ \E d \in Delivery : HandleEvent(d)
  BY NextCases DEF Charge, SetDefault, Drop, Register, InsertMethod, CommitDefault, Cutover,
     CommitCutover, PersistEvent, FailEvent, Remove, EnsureCustomer, Restart, money, hooks, vars
<1>. QED BY <1>1, <1>2, <1>3, SendTries, RecordWrites, ConcludeConcludes, HandleTells

(* Payment implements ChargeOutcome: one attempt is one charge at the provider and its end is
   final, its row is written once and never says more than the provider did, and the domain is
   told of each event once, after it happened, of drift only when the row is "errored": of a
   failed end by up to two events, the charge's and the intent's. *)
THEOREM PaymentKeepsPromise == Spec => PromiseKept
<1>1. Init => PromiseInv /\ HookInv /\ MoneyInv
  <2> SUFFICES ASSUME Init PROVE PromiseInv /\ HookInv /\ MoneyInv
    OBVIOUS
  <2>1. Sending = {} /\ Orphan = {}
    BY DEF Init, Sending, Orphan, Idle
  <2>2. MoneyInv
    BY <2>1, FS_EmptySet DEF Init, MoneyInv, Numbered, RowsAgree, InHand, OrphansPaid, NoIntent
  <2>3. PromiseInv /\ HookInv
    BY NoEventApart DEF Init, PromiseInv, HooksIssued, Tried, HookInv, HeldOnce, StagedOnce
  <2>. QED BY <2>2, <2>3
<1>2. TypeOK /\ MoneyInv /\ PromiseInv /\ [Next]_vars => PromiseInv'
  BY HooksIssuedStep, TriedStep DEF PromiseInv
<1>3. Init => Promise!Init
  BY DEF Init, Promise!Init, NoIntent
<1>. QED BY <1>1, <1>2, <1>3, MoneyStep, HookStep, PromiseStep, TypeCorrect, PTL
         DEF Spec, PromiseKept, Promise!Spec
================================================================================
