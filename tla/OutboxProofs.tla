---------------------------- MODULE OutboxProofs -----------------------------
(***************************************************************************)
(* The event plane's guarantees for any number of events, relays, workers, *)
(* copies and faults.                                                      *)
(***************************************************************************)
EXTENDS Outbox, TLAPS

(* A worker that is not idle holds a message. *)
Holding == \A w \in Workers : phase[w] # "idle" => held[w] \in Msg

(* The inbox row serialises claims of one event. *)
ClaimExclusive ==
    \A v, w \in Workers :
        phase[v] = "claimed" /\ phase[w] = "claimed" /\ held[v][1] = held[w][1] => v = w

(* An event being claimed has no committed inbox row. *)
ClaimFresh == \A w \in Workers : phase[w] = "claimed" => held[w][1] \notin inbox

(* Handler writes and inbox row commit together. *)
EffectIsClaim == \A e \in Event : effect[e] = IF e \in inbox THEN 1 ELSE 0

EffectInv == TypeOK /\ Holding /\ ClaimExclusive /\ ClaimFresh /\ EffectIsClaim

-----------------------------------------------------------------------------

(* A message is a copy of an event. *)
LEMMA MsgFacts ==
  /\ \A m \in Msg : m[1] \in Event
  /\ \A e \in Event, k \in 1 .. MaxCopies : <<e, k>> \in Msg /\ <<e, k>>[1] = e
  BY DEF Msg

LEMMA TypeInit == Init => TypeOK
  BY BoundsAssumption DEF Init, TypeOK, Place, Phase, Msg, Event, NoMsg

LEMMA RelayType ==
  ASSUME TypeOK, NEW r \in Relays, RelayStep(r) \/ RelayFault(r)
  PROVE  TypeOK'
<1> USE BoundsAssumption DEF TypeOK, relayVars, brokerVars, workerVars, dbVars, boundVars
<1>1. CASE Drain(r)
  BY <1>1 DEF Drain, Oldest, Drainable
<1>2. ASSUME NEW e \in Event, Publish(r, e) PROVE TypeOK'
  <2>1. <<e, copies[e] + 1>> \in Msg
    BY <1>2 DEF Publish, Enqueue, Msg
  <2>. QED BY <1>2, <2>1 DEF Publish, Tried, Sent, Enqueue, Place
<1>3. ASSUME NEW e \in Event, PublishError(r, e) PROVE TypeOK'
  <2>1. CASE Enqueue(e)
    <3>1. <<e, copies[e] + 1>> \in Msg
      BY <2>1 DEF Enqueue, Msg
    <3>. QED BY <1>3, <2>1, <3>1 DEF PublishError, Fault, Tried, Enqueue, Place
  <2>2. CASE UNCHANGED brokerVars
    BY <1>3, <2>2 DEF PublishError, Fault, Tried
  <2>. QED BY <1>3, <2>1, <2>2 DEF PublishError
<1>4. ASSUME NEW e \in Event, PublishLost(r, e) PROVE TypeOK'
  BY <1>4 DEF PublishLost, Tried, Sent
<1>5. CASE MarkAndCommit(r)
  BY <1>5 DEF MarkAndCommit, ReleaseBatch
<1>6. CASE RelayAbort(r)
  BY <1>6 DEF RelayAbort, ReleaseBatch, Fault
<1>. QED BY <1>1, <1>2, <1>3, <1>4, <1>5, <1>6 DEF RelayStep, RelayFault

(* Every step of a worker on the delivery it holds keeps the types. *)
LEMMA WorkerType ==
  ASSUME TypeOK, Holding, NEW w \in Workers,
         WorkerStep(w) \/ ChannelLost(w) \/ WorkerCrash(w)
  PROVE  TypeOK'
<1> USE DEF TypeOK, relayVars, brokerVars, workerVars, dbVars, boundVars, Place, Phase, Goto
<1>0. phase[w] # "idle" => held[w] \in Msg /\ held[w][1] \in Event
  BY MsgFacts DEF Holding
<1>1. CASE Claim(w) \/ SkipDuplicate(w) \/ HandlerError(w) \/ ParkError(w)
  BY <1>1 DEF Claim, SkipDuplicate, HandlerError, ParkError
<1>2. CASE Commit(w)
  <2>1. inbox' \in SUBSET Event /\ effect' \in [Event -> Nat]
    BY <1>0, <1>2 DEF Commit, ApplyEffect
  <2>2. phase' \in [Workers -> Phase] /\ faults' \in Nat
    BY <1>2 DEF Commit, Fault
  <2>. QED BY <1>2, <2>1, <2>2 DEF Commit
<1>3. CASE Park(w)
  BY <1>0, <1>3 DEF Park
<1>4. CASE Ack(w) \/ Nack(w)
  BY <1>0, <1>4 DEF Ack, Nack, Acked, Idle
<1>5. CASE ChannelLost(w)
  BY <1>0, <1>5 DEF ChannelLost, Requeued, Move, Fault
<1>6. CASE WorkerCrash(w)
  BY <1>0, <1>6 DEF WorkerCrash, Requeued, Move, Fault, Idle
<1>. QED BY <1>1, <1>2, <1>3, <1>4, <1>5, <1>6 DEF WorkerStep

LEMMA NextType == TypeOK /\ Holding /\ [Next]_vars => TypeOK'
<1> SUFFICES ASSUME TypeOK, Holding, [Next]_vars PROVE TypeOK'
  OBVIOUS
<1> USE DEF TypeOK, relayVars, brokerVars, workerVars, dbVars, boundVars, Place, Phase
<1>1. ASSUME NEW e \in Event, Stage(e) PROVE TypeOK'
  BY <1>1 DEF Stage
<1>2. ASSUME NEW r \in Relays, RelayStep(r) \/ RelayFault(r) PROVE TypeOK'
  BY <1>2, RelayType
<1>3. ASSUME NEW w \in Workers, WorkerStep(w) \/ ChannelLost(w) \/ WorkerCrash(w)
      PROVE  TypeOK'
  BY <1>3, WorkerType
<1>4. ASSUME NEW w \in Workers, NEW m \in Msg, Deliver(w, m) PROVE TypeOK'
  BY <1>4 DEF Deliver, Move, Goto
<1>5. ASSUME NEW m \in Msg, RetryExpires(m) PROVE TypeOK'
  BY <1>5 DEF RetryExpires, Move
<1>6. CASE UNCHANGED vars
  BY <1>6 DEF vars
<1>. QED BY <1>1, <1>2, <1>3, <1>4, <1>5, <1>6 DEF Next

(* Relays, staging and the retry TTL do not touch workers, inbox or effects. *)
LEMMA OthersLeaveWorkers ==
  /\ \A r \in Relays : RelayStep(r) \/ RelayFault(r) => UNCHANGED <<workerVars, dbVars>>
  /\ \A e \in Event : Stage(e) => UNCHANGED <<workerVars, dbVars>>
  /\ \A m \in Msg : RetryExpires(m) => UNCHANGED <<workerVars, dbVars>>
  BY DEF RelayStep, RelayFault, Drain, Publish, PublishError, PublishLost,
         MarkAndCommit, RelayAbort, Stage, RetryExpires, workerVars, dbVars

(* EffectInv is inductive. *)
LEMMA EffectInvStep == EffectInv /\ [Next]_vars => EffectInv'
<1> SUFFICES ASSUME EffectInv, [Next]_vars PROVE EffectInv'
  OBVIOUS
<1>0. TypeOK'
  BY NextType DEF EffectInv
<1> USE DEF EffectInv, Holding, ClaimExclusive, ClaimFresh, EffectIsClaim
<1>1. CASE UNCHANGED <<workerVars, dbVars>>
  BY <1>0, <1>1 DEF workerVars, dbVars
<1>2. ASSUME NEW w \in Workers, Claim(w) PROVE EffectInv'
  BY <1>0, <1>2 DEF Claim, ClaimLocked, Goto, TypeOK, dbVars
<1>3. ASSUME NEW w \in Workers, Commit(w) PROVE EffectInv'
  <2>1. held[w][1] \in Event /\ held[w][1] \notin inbox
    BY <1>3, MsgFacts DEF Commit
  <2>2. /\ held' = held /\ phase'[w] \in {"settled", "failed"}
        /\ \A v \in Workers \ {w} : phase'[v] = phase[v]
    BY <1>3 DEF Commit, Goto, TypeOK
  <2>3. EffectIsClaim'
    BY <1>3, <2>1 DEF Commit, ApplyEffect, TypeOK
  <2>4. ClaimFresh'
    BY <1>3, <2>1, <2>2 DEF Commit, ApplyEffect
  <2>5. Holding' /\ ClaimExclusive'
    BY <1>3, <2>2 DEF Commit
  <2>. QED BY <1>0, <2>3, <2>4, <2>5
<1>4. ASSUME NEW w \in Workers,
             SkipDuplicate(w) \/ HandlerError(w) \/ Park(w) \/ ParkError(w)
      PROVE  EffectInv'
  BY <1>0, <1>4 DEF SkipDuplicate, HandlerError, Park, ParkError, Goto, TypeOK, dbVars
<1>5. ASSUME NEW w \in Workers, Ack(w) \/ Nack(w) \/ WorkerCrash(w) PROVE EffectInv'
  <2>1. /\ phase' = [phase EXCEPT ![w] = "idle"] /\ held' = [held EXCEPT ![w] = NoMsg]
        /\ UNCHANGED dbVars
    BY <1>5 DEF Ack, Nack, Acked, WorkerCrash, Idle, Goto
  <2>2. /\ phase'[w] = "idle"
        /\ \A v \in Workers \ {w} : phase'[v] = phase[v] /\ held'[v] = held[v]
    BY <2>1 DEF TypeOK
  <2>. QED BY <1>0, <2>1, <2>2 DEF dbVars
<1>6. ASSUME NEW w \in Workers, ChannelLost(w) PROVE EffectInv'
  BY <1>0, <1>6 DEF ChannelLost, dbVars
<1>7. ASSUME NEW w \in Workers, NEW m \in Msg, Deliver(w, m) PROVE EffectInv'
  BY <1>0, <1>7 DEF Deliver, Goto, TypeOK, dbVars
<1>8. CASE UNCHANGED vars
  BY <1>1, <1>8 DEF vars
<1>. QED
  BY <1>1, <1>2, <1>3, <1>4, <1>5, <1>6, <1>7, <1>8, OthersLeaveWorkers
  DEF Next, WorkerStep

LEMMA EffectInvHolds == Spec => []EffectInv
<1>1. Init => EffectInv
  BY TypeInit DEF Init, EffectInv, Holding, ClaimExclusive, ClaimFresh, EffectIsClaim
<1>. QED BY <1>1, EffectInvStep, PTL DEF Spec

(* The variables of the event plane keep their types, however many processes
   and faults there are. *)
THEOREM TypeCorrect == Spec => []TypeOK
  BY EffectInvHolds, PTL DEF EffectInv

(* Claim and handler share one transaction, so redelivery, retry, replay and
   competing workers never commit a handler's writes twice. *)
THEOREM EffectAtMostOnce == Spec => []AtMostOnceEffect
<1>1. EffectInv => AtMostOnceEffect
  BY DEF EffectInv, EffectIsClaim, AtMostOnceEffect
<1>. QED BY <1>1, EffectInvHolds, PTL

-----------------------------------------------------------------------------
(* No silent loss. *)

Working(w) == phase[w] # "idle" /\ live[w]

(* The broker counts a live delivery as held. *)
LiveIsHeld == \A w \in Workers : Working(w) => place[held[w]] = "held"

(* One copy is handed to one live worker at a time. *)
OneHolder == \A v, w \in Workers : Working(v) /\ Working(w) /\ held[v] = held[w] => v = w

(* What is about to be acked on a live channel is in effect or parked. *)
SettledIsSafe ==
    \A w \in Workers :
        phase[w] = "settled" /\ live[w] => held[w][1] \in inbox \union parked

(* A copy that was never enqueued is nowhere. *)
NotSentYet ==
    \A e \in Event, k \in 1 .. MaxCopies : k > copies[e] => place[<<e, k>>] = "none"

Deliveries == LiveIsHeld /\ OneHolder /\ SettledIsSafe /\ NotSentYet /\ NoSilentLoss

LossInv == EffectInv /\ Deliveries

LEMMA EnqueueDeliveries ==
  ASSUME LossInv, NEW e \in Event, Enqueue(e), UNCHANGED <<workerVars, dbVars>>
  PROVE  Deliveries'
<1> DEFINE n == <<e, copies[e] + 1>>
<1>1. n \in Msg /\ copies[e] + 1 \in 1 .. MaxCopies /\ copies[e] \in Nat
  BY BoundsAssumption DEF Enqueue, Msg, LossInv, EffectInv, TypeOK
<1>2. place[n] = "none"
  BY <1>1 DEF LossInv, Deliveries, NotSentYet
<1>3. place'[n] = "queue" /\ \A m \in Msg \ {n} : place'[m] = place[m]
  BY <1>1 DEF Enqueue, LossInv, EffectInv, TypeOK
<1>4. copies'[e] = copies[e] + 1 /\ \A d \in Event \ {e} : copies'[d] = copies[d]
  BY DEF Enqueue, LossInv, EffectInv, TypeOK
<1>5. \A w \in Workers : Working(w) => held[w] \in Msg /\ held[w] # n
  BY <1>2 DEF LossInv, EffectInv, Holding, Deliveries, LiveIsHeld, Working
<1>6. LiveIsHeld' /\ OneHolder' /\ SettledIsSafe'
  BY <1>3, <1>5 DEF LossInv, Deliveries, LiveIsHeld, OneHolder, SettledIsSafe, Working,
                    Enqueue, workerVars, dbVars
<1>7. NotSentYet'
  <2> SUFFICES ASSUME NEW d \in Event, NEW k \in 1 .. MaxCopies, k > copies'[d]
               PROVE  place'[<<d, k>>] = "none"
    BY DEF NotSentYet
  <2>1. <<d, k>> \in Msg /\ <<d, k>> # n /\ k > copies[d]
    BY <1>1, <1>4 DEF Msg, LossInv, EffectInv, TypeOK
  <2>. QED BY <2>1, <1>3 DEF LossInv, Deliveries, NotSentYet
<1>8. NoSilentLoss'
  <2> SUFFICES ASSUME NEW d \in Event, copies'[d] >= 1, d \notin inbox', d \notin parked'
               PROVE  \E k \in 1 .. MaxCopies : InFlight(<<d, k>>)'
    BY DEF NoSilentLoss
  <2>1. CASE d = e
    BY <2>1, <1>1, <1>3 DEF InFlight
  <2>2. CASE d # e
    <3>1. PICK k \in 1 .. MaxCopies : InFlight(<<d, k>>)
      BY <2>2, <1>4 DEF LossInv, Deliveries, NoSilentLoss, Enqueue, dbVars
    <3>2. <<d, k>> \in Msg \ {n}
      BY <2>2 DEF Msg
    <3>. QED BY <3>1, <3>2, <1>3 DEF InFlight
  <2>. QED BY <2>1, <2>2
<1>. QED BY <1>6, <1>7, <1>8 DEF Deliveries

(* A step that leaves broker, workers and inbox alone. *)
LEMMA IdleDeliveries ==
  ASSUME Deliveries, UNCHANGED <<brokerVars, workerVars, dbVars>>
  PROVE  Deliveries'
  BY DEF Deliveries, LiveIsHeld, OneHolder, SettledIsSafe, NotSentYet, NoSilentLoss,
         InFlight, Working, brokerVars, workerVars, dbVars

(* A step that moves one copy from one place in flight to another, or settles
   it once its event is in effect or parked. *)
LEMMA MoveKeepsEvents ==
  ASSUME LossInv, NEW m \in Msg, place[m] # "none",
         \A x \in Msg \ {m} : place'[x] = place[x],
         \/ place'[m] \in {"queue", "held", "retry"}
         \/ m[1] \in inbox' \union parked',
         copies' = copies, inbox \subseteq inbox', parked \subseteq parked'
  PROVE  NotSentYet' /\ NoSilentLoss'
<1>1. NotSentYet'
  BY DEF LossInv, Deliveries, NotSentYet, Msg
<1>2. NoSilentLoss'
  <2> SUFFICES ASSUME NEW d \in Event, copies'[d] >= 1, d \notin inbox', d \notin parked'
               PROVE  \E k \in 1 .. MaxCopies : InFlight(<<d, k>>)'
    BY DEF NoSilentLoss
  <2>1. PICK k \in 1 .. MaxCopies : InFlight(<<d, k>>)
    BY DEF LossInv, Deliveries, NoSilentLoss
  <2>2. <<d, k>> \in Msg /\ <<d, k>>[1] = d
    BY MsgFacts
  <2>. QED BY <2>1, <2>2 DEF InFlight
<1>. QED BY <1>1, <1>2

LEMMA RelayLossInv ==
  ASSUME LossInv, NEW r \in Relays, RelayStep(r) \/ RelayFault(r)
  PROVE  Deliveries'
<1>1. UNCHANGED <<workerVars, dbVars>>
  BY OthersLeaveWorkers
<1>2. UNCHANGED brokerVars \/ \E e \in Event : Enqueue(e)
  BY DEF RelayStep, RelayFault, Drain, Publish, PublishError, PublishLost,
         MarkAndCommit, RelayAbort
<1>. QED BY <1>1, <1>2, EnqueueDeliveries, IdleDeliveries DEF LossInv

LEMMA WorkerLossInv ==
  ASSUME LossInv, NEW w \in Workers, WorkerStep(w) \/ ChannelLost(w) \/ WorkerCrash(w)
  PROVE  Deliveries'
<1> USE DEF LossInv, EffectInv, TypeOK, Goto
<1>0. phase[w] # "idle" => held[w] \in Msg /\ held[w][1] \in Event
  BY MsgFacts DEF Holding
<1> DEFINE Rest == LiveIsHeld' /\ OneHolder' /\ SettledIsSafe'
<1>a. ASSUME UNCHANGED place, UNCHANGED copies, inbox \subseteq inbox', parked \subseteq parked'
      PROVE  NotSentYet' /\ NoSilentLoss'
  BY <1>a DEF Deliveries, NotSentYet, NoSilentLoss, InFlight
<1>1. CASE Claim(w) \/ SkipDuplicate(w) \/ HandlerError(w) \/ ParkError(w)
  <2>1. Rest
    BY <1>1 DEF Claim, SkipDuplicate, HandlerError, ParkError, Deliveries, LiveIsHeld,
                OneHolder, SettledIsSafe, Working, brokerVars, dbVars
  <2>. QED BY <2>1, <1>1, <1>a DEF Claim, SkipDuplicate, HandlerError, ParkError,
                                   Deliveries, brokerVars, dbVars
<1>2. CASE Commit(w)
  <2>1. inbox' = inbox \union {held[w][1]} /\ UNCHANGED <<place, copies, parked, held, live>>
    BY <1>2 DEF Commit, ApplyEffect, brokerVars
  <2>2. Rest
    BY <1>2, <2>1 DEF Commit, Deliveries, LiveIsHeld, OneHolder, SettledIsSafe, Working
  <2>. QED BY <2>1, <2>2, <1>a DEF Deliveries
<1>3. CASE Park(w)
  <2>1. parked' = parked \union {held[w][1]} /\ UNCHANGED <<place, copies, inbox, held, live>>
    BY <1>3 DEF Park, dbVars
  <2>2. Rest
    BY <1>3, <2>1 DEF Park, Deliveries, LiveIsHeld, OneHolder, SettledIsSafe, Working
  <2>. QED BY <2>1, <2>2, <1>a DEF Deliveries
<1>4. ASSUME Ack(w) \/ Nack(w) \/ WorkerCrash(w) \/ ChannelLost(w)
      PROVE  Deliveries'
  <2>1. /\ UNCHANGED <<copies, parked, inbox>>
        /\ \A x \in Msg \ {held[w]} : place'[x] = place[x]
        /\ ~live[w] => UNCHANGED place
        /\ live[w] => \/ place'[held[w]] \in {"queue", "retry"}
                      \/ place'[held[w]] = "acked" /\ phase[w] = "settled"
    BY <1>4, <1>0 DEF Ack, Nack, WorkerCrash, ChannelLost, Acked, Idle, Requeued, Move, dbVars
  <2>2. /\ ~Working(w)'
        /\ \A v \in Workers \ {w} :
             phase'[v] = phase[v] /\ held'[v] = held[v] /\ live'[v] = live[v]
    BY <1>4 DEF Ack, Nack, WorkerCrash, ChannelLost, Acked, Idle, Working
  <2>3. phase[w] # "idle"
    BY <1>4 DEF Ack, Nack, WorkerCrash, ChannelLost
  <2>4. phase'[w] = "idle" \/ live'[w] = FALSE
    BY <1>4 DEF Ack, Nack, WorkerCrash, ChannelLost, Acked, Idle
  <2>5. Rest
    <3>1. \A v \in Workers : Working(v)' => v # w /\ Working(v)
      BY <2>2 DEF Working
    <3>2. \A v \in Workers \ {w} : live[w] /\ Working(v) => held[v] # held[w]
      BY <2>3 DEF Deliveries, OneHolder, Working
    <3>3. LiveIsHeld'
      BY <3>1, <3>2, <2>1, <2>2 DEF Deliveries, LiveIsHeld, Holding, Working
    <3>4. OneHolder' /\ SettledIsSafe'
      BY <3>1, <2>1, <2>2, <2>4 DEF Deliveries, OneHolder, SettledIsSafe, Working
    <3>. QED BY <3>3, <3>4
  <2>6. CASE live[w]
    <3>1. place[held[w]] = "held"
      BY <2>3, <2>6 DEF Deliveries, LiveIsHeld, Working
    <3>2. phase[w] = "settled" => held[w][1] \in inbox \union parked
      BY <2>6 DEF Deliveries, SettledIsSafe
    <3>. QED BY <1>0, <2>1, <2>3, <2>5, <2>6, <3>1, <3>2, MoveKeepsEvents DEF Deliveries
  <2>7. CASE ~live[w]
    BY <1>a, <2>1, <2>5, <2>7 DEF Deliveries
  <2>. QED BY <2>6, <2>7
<1>. QED BY <1>1, <1>2, <1>3, <1>4 DEF WorkerStep

LEMMA LossInvStep == LossInv /\ [Next]_vars => LossInv'
<1> SUFFICES ASSUME LossInv, [Next]_vars PROVE Deliveries'
  BY EffectInvStep DEF LossInv
<1>1. ASSUME NEW e \in Event, Stage(e) PROVE Deliveries'
  BY <1>1, IdleDeliveries DEF Stage, LossInv
<1>2. ASSUME NEW w \in Workers, NEW m \in Msg, Deliver(w, m) PROVE Deliveries'
  <2>1. /\ place[m] = "queue" /\ place'[m] = "held"
        /\ \A x \in Msg \ {m} : place'[x] = place[x]
        /\ UNCHANGED <<copies, parked, inbox>>
    BY <1>2 DEF Deliver, Move, dbVars, LossInv, EffectInv, TypeOK
  <2>2. /\ phase'[w] = "received" /\ held'[w] = m
        /\ \A v \in Workers \ {w} :
             phase'[v] = phase[v] /\ held'[v] = held[v] /\ live'[v] = live[v]
    BY <1>2 DEF Deliver, Goto, LossInv, EffectInv, TypeOK
  <2>3. \A v \in Workers : Working(v) => held[v] \in Msg \ {m}
    BY <2>1 DEF LossInv, EffectInv, Holding, Deliveries, LiveIsHeld, Working
  <2>4. LiveIsHeld' /\ OneHolder' /\ SettledIsSafe'
    BY <2>1, <2>2, <2>3 DEF LossInv, Deliveries, LiveIsHeld, OneHolder, SettledIsSafe, Working
  <2>. QED BY <2>1, <2>4, MoveKeepsEvents DEF Deliveries
<1>3. ASSUME NEW m \in Msg, RetryExpires(m) PROVE Deliveries'
  <2>1. /\ place[m] = "retry" /\ place'[m] = "queue"
        /\ \A x \in Msg \ {m} : place'[x] = place[x]
        /\ UNCHANGED <<copies, parked, workerVars, dbVars>>
    BY <1>3 DEF RetryExpires, Move, LossInv, EffectInv, TypeOK
  <2>2. LiveIsHeld' /\ OneHolder' /\ SettledIsSafe'
    BY <2>1 DEF LossInv, EffectInv, Holding, Deliveries, LiveIsHeld, OneHolder, SettledIsSafe,
                Working, workerVars, dbVars
  <2>. QED BY <2>1, <2>2, MoveKeepsEvents DEF Deliveries, dbVars
<1>4. CASE UNCHANGED vars
  BY <1>4, IdleDeliveries DEF vars, LossInv
<1>. QED BY <1>1, <1>2, <1>3, <1>4, RelayLossInv, WorkerLossInv DEF Next

(* Settling a delivery never loses the only copy of an event: it is acked
   after its commit, parked before its ack, and otherwise dead-lettered. *)
THEOREM NothingLost == Spec => []NoSilentLoss
<1>1. Init => LossInv
  <2>1. Init => EffectInv
    BY TypeInit DEF Init, EffectInv, Holding, ClaimExclusive, ClaimFresh, EffectIsClaim
  <2>2. Init => Deliveries
    BY MsgFacts DEF Init, Deliveries, LiveIsHeld, OneHolder, SettledIsSafe, NotSentYet,
                    NoSilentLoss, Working
  <2>. QED BY <2>1, <2>2 DEF LossInv
<1>2. LossInv => NoSilentLoss
  BY DEF LossInv, Deliveries
<1>. QED BY <1>1, <1>2, LossInvStep, PTL DEF Spec

-----------------------------------------------------------------------------
(* Relays do not duplicate each other's work. *)

(* A locked row is unpublished and locked by one relay. *)
Locks ==
    /\ \A r \in Relays : sent[r] \subseteq tried[r] /\ tried[r] \subseteq batch[r]
    /\ \A r \in Relays, e \in Event : e \in batch[r] => row[e] = "unpublished"
    /\ \A r, q \in Relays, e \in Event : e \in batch[r] /\ e \in batch[q] => r = q

SentNow(e) == \E r \in Relays : e \in sent[r]

(* The copies of a row that may still be published were all paid by faults. *)
PaidFor ==
    \A e \in Event :
        /\ copies[e] <= 1 + faults
        /\ row[e] # "published" /\ ~SentNow(e) => copies[e] <= faults

RelayInv == TypeOK /\ Locks /\ PaidFor

(* Everything but a relay leaves the table and the copies alone, and staging
   only turns an absent row into an unpublished one. *)
LEMMA OthersLeaveRelays ==
  /\ \A e \in Event : Stage(e) =>
        /\ UNCHANGED <<relayVars, copies, faults>>
        /\ row[e] = "absent" /\ row' = [row EXCEPT ![e] = "unpublished"]
  /\ \A w \in Workers : WorkerStep(w) \/ ChannelLost(w) \/ WorkerCrash(w) =>
        UNCHANGED <<row, relayVars, copies>> /\ (faults' = faults \/ faults' = faults + 1)
  /\ \A w \in Workers, m \in Msg : Deliver(w, m) => UNCHANGED <<row, relayVars, copies, faults>>
  /\ \A m \in Msg : RetryExpires(m) => UNCHANGED <<row, relayVars, copies, faults>>
  BY DEF Stage, brokerVars, boundVars, WorkerStep, Claim, SkipDuplicate, Commit, HandlerError,
         Ack, Nack, Park, ParkError, ChannelLost, WorkerCrash, Fault, Deliver, RetryExpires

LEMMA RelayInvStep == RelayInv /\ Holding /\ [Next]_vars => RelayInv'
<1> SUFFICES ASSUME RelayInv, TypeOK', [Next]_vars PROVE Locks' /\ PaidFor'
  BY NextType DEF RelayInv
<1> USE DEF RelayInv, TypeOK, Locks
<1>1. ASSUME UNCHANGED <<row, relayVars, copies>>, faults' = faults \/ faults' = faults + 1
      PROVE  Locks' /\ PaidFor'
  BY <1>1 DEF relayVars, PaidFor, SentNow
<1>2. ASSUME NEW e \in Event, Stage(e) PROVE Locks' /\ PaidFor'
  BY <1>2, OthersLeaveRelays DEF relayVars, PaidFor, SentNow
<1>3. ASSUME NEW r \in Relays, Drain(r) PROVE Locks' /\ PaidFor'
  <2>1. \A e \in batch'[r] : e \in Event /\ row[e] = "unpublished"
                             /\ \A q \in Relays : e \notin batch[q]
    BY <1>3 DEF Drain, Oldest, Drainable
  <2>. QED BY <1>3, <2>1 DEF Drain, PaidFor, SentNow, brokerVars, boundVars
<1>4. ASSUME NEW r \in Relays, NEW e \in Event, NextRow(r, e),
             tried' = [tried EXCEPT ![r] = @ \union {e}],
             UNCHANGED <<row, batch>>,
             sent' = sent \/ sent' = [sent EXCEPT ![r] = @ \union {e}]
      PROVE  /\ Locks'
             /\ ~SentNow(e) /\ row[e] = "unpublished"
             /\ \A d \in Event \ {e} : SentNow(d)' <=> SentNow(d)
             /\ sent' # sent => SentNow(e)'
             /\ copies[e] <= faults
  <2>1. e \in batch[r] /\ e \notin tried[r]
    BY <1>4 DEF NextRow
  <2>2. ~SentNow(e)
    BY <2>1 DEF SentNow
  <2>3. Locks'
    BY <1>4, <2>1
  <2>4. \A d \in Event \ {e} : SentNow(d)' <=> SentNow(d)
    <3>1. ASSUME NEW d \in Event \ {e}, NEW q \in Relays
          PROVE  d \in sent'[q] <=> d \in sent[q]
      BY <1>4, <3>1
    <3>. QED BY <3>1 DEF SentNow
  <2>5. sent' # sent => SentNow(e)'
    <3>1. sent' # sent => e \in sent'[r]
      BY <1>4
    <3>. QED BY <3>1 DEF SentNow
  <2>. QED BY <2>1, <2>2, <2>3, <2>4, <2>5 DEF PaidFor
<1>a. ASSUME NEW e \in Event, ~SentNow(e), row[e] = "unpublished", row' = row,
             \A d \in Event \ {e} : SentNow(d)' <=> SentNow(d),
             faults' = faults \/ faults' = faults + 1,
             copies' = copies \/ copies' = [copies EXCEPT ![e] = @ + 1],
             copies'[e] <= faults' \/ (SentNow(e)' /\ copies'[e] <= 1 + faults')
      PROVE  PaidFor'
  BY <1>a DEF PaidFor
<1>5. ASSUME NEW r \in Relays, NEW e \in Event, Publish(r, e) PROVE Locks' /\ PaidFor'
  <2>1. faults' = faults /\ copies' = [copies EXCEPT ![e] = @ + 1] /\ sent' # sent
    BY <1>5 DEF Publish, NextRow, Sent, Enqueue, boundVars
  <2>2. /\ Locks' /\ ~SentNow(e) /\ row[e] = "unpublished" /\ SentNow(e)'
        /\ \A d \in Event \ {e} : SentNow(d)' <=> SentNow(d)
        /\ copies[e] <= faults
    BY <1>4, <1>5, <2>1 DEF Publish, Tried, Sent
  <2>3. copies'[e] <= 1 + faults'
    BY <2>1, <2>2
  <2>. QED BY <1>a, <1>5, <2>1, <2>2, <2>3 DEF Publish
<1>6. ASSUME NEW r \in Relays, NEW e \in Event, PublishError(r, e) PROVE Locks' /\ PaidFor'
  <2>1. /\ faults' = faults + 1 /\ sent' = sent
        /\ copies' = copies \/ copies' = [copies EXCEPT ![e] = @ + 1]
    BY <1>6 DEF PublishError, Fault, Enqueue, brokerVars
  <2>2. /\ Locks' /\ ~SentNow(e) /\ row[e] = "unpublished"
        /\ \A d \in Event \ {e} : SentNow(d)' <=> SentNow(d)
        /\ copies[e] <= faults
    BY <1>4, <1>6, <2>1 DEF PublishError, Tried
  <2>3. copies'[e] <= faults'
    BY <2>1, <2>2
  <2>. QED BY <1>a, <1>6, <2>1, <2>2, <2>3 DEF PublishError
<1>7. ASSUME NEW r \in Relays, NEW e \in Event, PublishLost(r, e) PROVE Locks' /\ PaidFor'
  <2>1. faults' = faults /\ copies' = copies
    BY <1>7 DEF PublishLost, brokerVars
  <2>2. /\ Locks' /\ ~SentNow(e) /\ row[e] = "unpublished"
        /\ \A d \in Event \ {e} : SentNow(d)' <=> SentNow(d)
        /\ copies[e] <= faults
    BY <1>4, <1>7 DEF PublishLost, Tried, Sent
  <2>. QED BY <1>a, <1>7, <2>1, <2>2 DEF PublishLost
<1>8. ASSUME NEW r \in Relays, MarkAndCommit(r) PROVE Locks' /\ PaidFor'
  <2>1. /\ UNCHANGED <<copies, faults>>
        /\ batch'[r] = {} /\ sent'[r] = {} /\ tried'[r] = {}
        /\ \A q \in Relays \ {r} :
             batch'[q] = batch[q] /\ sent'[q] = sent[q] /\ tried'[q] = tried[q]
        /\ \A e \in Event : row'[e] = IF e \in sent[r] THEN "published" ELSE row[e]
    BY <1>8 DEF MarkAndCommit, ReleaseBatch, brokerVars, boundVars
  <2>2. Locks'
    <3>1. \A q \in Relays, e \in Event : e \in batch'[q] => q # r /\ e \in batch[q] /\ e \notin batch[r]
      BY <2>1
    <3>2. \A q \in Relays, e \in Event : e \in batch'[q] => row'[e] = "unpublished"
      BY <2>1, <3>1
    <3>3. \A q \in Relays : sent'[q] \subseteq tried'[q] /\ tried'[q] \subseteq batch'[q]
      BY <2>1
    <3>. QED BY <3>1, <3>2, <3>3
  <2>3. ASSUME NEW e \in Event, row'[e] # "published", ~SentNow(e)'
        PROVE  row[e] # "published" /\ ~SentNow(e)
    <3>1. e \notin sent[r] /\ row[e] # "published"
      BY <2>1, <2>3
    <3>. QED BY <2>1, <2>3, <3>1 DEF SentNow
  <2>. QED BY <2>1, <2>2, <2>3 DEF PaidFor
<1>9. ASSUME NEW r \in Relays, RelayAbort(r) PROVE Locks' /\ PaidFor'
  <2>1. /\ UNCHANGED <<row, copies>> /\ faults' = faults + 1
        /\ batch'[r] = {} /\ sent'[r] = {} /\ tried'[r] = {}
        /\ \A q \in Relays \ {r} :
             batch'[q] = batch[q] /\ sent'[q] = sent[q] /\ tried'[q] = tried[q]
    BY <1>9 DEF RelayAbort, ReleaseBatch, Fault, brokerVars
  <2>2. Locks'
    <3>1. \A q \in Relays, e \in Event : e \in batch'[q] => e \in batch[q]
      BY <2>1
    <3>. QED BY <2>1, <3>1
  <2>3. PaidFor'
    BY <2>1 DEF PaidFor
  <2>. QED BY <2>2, <2>3
<1>10. CASE UNCHANGED vars
  BY <1>1, <1>10 DEF vars, brokerVars, boundVars
<1>. QED
  BY <1>1, <1>2, <1>3, <1>5, <1>6, <1>7, <1>8, <1>9, <1>10, OthersLeaveRelays
  DEF Next, RelayStep, RelayFault

(* FOR UPDATE SKIP LOCKED: relays sharing the table publish a row once each
   time it is due, and a second copy needs a fault. *)
THEOREM NoIdleDuplicates == Spec => []DuplicatesNeedFaults
<1>1. Init => RelayInv
  BY TypeInit DEF Init, RelayInv, Locks, PaidFor, SentNow
<1>2. RelayInv => DuplicatesNeedFaults
  BY DEF RelayInv, PaidFor, DuplicatesNeedFaults
<1>3. EffectInv => Holding
  BY DEF EffectInv
<1>. QED BY <1>1, <1>2, <1>3, RelayInvStep, EffectInvHolds, PTL DEF Spec

-----------------------------------------------------------------------------
(* Refinement: the event plane implements the safety part of its promise. *)

Committed(e) == row[e] # "absent"

(* Only committed events travel. *)
Sourced ==
    /\ \A m \in Msg : place[m] # "none" => Committed(m[1])
    /\ \A w \in Workers : phase[w] # "idle" => Committed(held[w][1])

PlaneInv == EffectInv /\ RelayInv /\ Sourced

LEMMA RowGrows == TypeOK /\ [Next]_vars => \A e \in Event : Committed(e) => Committed(e)'
<1> SUFFICES ASSUME TypeOK, [Next]_vars PROVE \A e \in Event : Committed(e) => Committed(e)'
  OBVIOUS
<1>1. UNCHANGED row \/ (\E e \in Event : Stage(e)) \/ (\E r \in Relays : MarkAndCommit(r))
  BY OthersLeaveRelays DEF Next, RelayStep, RelayFault, Drain, Publish, PublishError,
     PublishLost, RelayAbort, vars
<1>. QED BY <1>1 DEF Stage, MarkAndCommit, Committed, TypeOK

LEMMA SourcedStep == PlaneInv /\ [Next]_vars => Sourced'
<1> SUFFICES ASSUME PlaneInv, [Next]_vars PROVE Sourced'
  OBVIOUS
<1>0. \A m \in Msg : Committed(m[1]) => Committed(m[1])'
  BY RowGrows, MsgFacts DEF PlaneInv, EffectInv
<1> USE DEF PlaneInv, EffectInv, TypeOK, Sourced
<1>1. ASSUME UNCHANGED <<place, held, phase>> PROVE Sourced'
  BY <1>0, <1>1 DEF Holding
<1>2. ASSUME NEW r \in Relays, RelayStep(r) \/ RelayFault(r) PROVE Sourced'
  <2>1. UNCHANGED <<held, phase>>
    BY <1>2, OthersLeaveWorkers DEF workerVars
  <2>2. UNCHANGED place \/ \E e \in batch[r] : Enqueue(e)
    BY <1>2 DEF RelayStep, RelayFault, Drain, Publish, PublishError, PublishLost,
       MarkAndCommit, RelayAbort, NextRow, brokerVars
  <2>3. ASSUME NEW e \in batch[r], Enqueue(e) PROVE Sourced'
    <3>1. e \in Event /\ Committed(e)
      BY DEF RelayInv, Locks, Committed
    <3>2. <<e, copies[e] + 1>> \in Msg /\ <<e, copies[e] + 1>>[1] = e
      BY <2>3, <3>1, BoundsAssumption DEF Enqueue, Msg
    <3>3. \A m \in Msg : place'[m] # "none" => place[m] # "none" \/ m[1] = e
      BY <2>3, <3>2 DEF Enqueue
    <3>. QED BY <1>0, <2>1, <3>1, <3>2, <3>3 DEF Holding
  <2>. QED BY <1>1, <2>1, <2>2, <2>3
<1>3. ASSUME NEW w \in Workers, WorkerStep(w) \/ ChannelLost(w) \/ WorkerCrash(w)
      PROVE  Sourced'
  <2>0. phase[w] # "idle" => held[w] \in Msg
    BY DEF Holding
  <2>1. \A v \in Workers : phase'[v] # "idle" => phase[v] # "idle" /\ held'[v] = held[v]
    BY <1>3 DEF WorkerStep, Claim, SkipDuplicate, Commit, HandlerError, Ack, Nack, Park,
       ParkError, ChannelLost, WorkerCrash, Acked, Idle, Goto
  <2>2. \A m \in Msg : place'[m] # "none" =>
           place[m] # "none" \/ (phase[w] # "idle" /\ m = held[w])
    BY <1>3, <2>0 DEF WorkerStep, Claim, SkipDuplicate, Commit, HandlerError, Ack, Nack, Park,
       ParkError, ChannelLost, WorkerCrash, Acked, Idle, Requeued, Move, brokerVars
  <2>. QED BY <1>0, <2>0, <2>1, <2>2 DEF Holding
<1>4. ASSUME NEW w \in Workers, NEW m \in Msg, Deliver(w, m) PROVE Sourced'
  BY <1>0, <1>4 DEF Deliver, Move, Goto, Holding
<1>5. ASSUME NEW m \in Msg, RetryExpires(m) PROVE Sourced'
  BY <1>0, <1>5 DEF RetryExpires, Move, workerVars, Holding
<1>6. ASSUME NEW e \in Event, Stage(e) PROVE Sourced'
  BY <1>1, <1>6 DEF Stage, brokerVars, workerVars
<1>7. CASE UNCHANGED vars
  BY <1>1, <1>7 DEF vars, brokerVars, workerVars
<1>. QED BY <1>2, <1>3, <1>4, <1>5, <1>6, <1>7 DEF Next

(* Every step of relays, broker and workers is a step of the promise or
   invisible to it. *)
LEMMA PromiseStep == PlaneInv /\ [Next]_vars => [Promise!Next]_(Promise!vars)
<1> SUFFICES ASSUME PlaneInv, [Next]_vars PROVE [Promise!Next]_(Promise!vars)
  OBVIOUS
<1> DEFINE staged == {e \in Event : row[e] # "absent"}
<1> USE DEF PlaneInv, EffectInv, TypeOK
<1>1. ASSUME staged' = staged, UNCHANGED <<effect, parked>>
      PROVE  [Promise!Next]_(Promise!vars)
  BY <1>1 DEF Promise!vars
<1>2. ASSUME NEW e \in Event, Stage(e) PROVE Promise!Next
  <2>1. e \notin staged /\ staged' = staged \union {e}
    BY <1>2 DEF Stage
  <2>2. UNCHANGED <<effect, parked>>
    BY <1>2 DEF Stage, brokerVars, dbVars
  <2>. QED BY <2>1, <2>2 DEF Promise!Next, Promise!Stage
<1>3. ASSUME NEW r \in Relays, RelayStep(r) \/ RelayFault(r)
      PROVE  [Promise!Next]_(Promise!vars)
  <2>1. UNCHANGED <<effect, parked>>
    BY <1>3 DEF RelayStep, RelayFault, Drain, Publish, PublishError, PublishLost,
       MarkAndCommit, RelayAbort, Enqueue, brokerVars, dbVars
  <2>2. staged' = staged
    <3>1. CASE MarkAndCommit(r)
      <4>1. \A e \in sent[r] : e \in Event /\ row[e] = "unpublished"
        BY DEF RelayInv, Locks
      <4>2. \A e \in Event : row'[e] # "absent" <=> row[e] # "absent"
        BY <3>1, <4>1 DEF MarkAndCommit
      <4>. QED BY <4>2
    <3>2. CASE UNCHANGED row
      BY <3>2
    <3>. QED BY <1>3, <3>1, <3>2 DEF RelayStep, RelayFault, Drain, Publish, PublishError,
                PublishLost, RelayAbort
  <2>. QED BY <1>1, <2>1, <2>2
<1>4. ASSUME NEW w \in Workers, Commit(w) PROVE Promise!Next
  <2>1. held[w][1] \in Event /\ held[w][1] \in staged
    BY <1>4, MsgFacts DEF Commit, Holding, Sourced, Committed
  <2>2. effect[held[w][1]] = 0 /\ effect' = [effect EXCEPT ![held[w][1]] = 1]
    <3>1. effect[held[w][1]] = 0
      BY <1>4, <2>1 DEF Commit, ClaimFresh, EffectIsClaim
    <3>2. effect' = [effect EXCEPT ![held[w][1]] = 0 + 1]
      BY <1>4, <3>1 DEF Commit, ApplyEffect
    <3>. QED BY <3>1, <3>2
  <2>3. staged' = staged /\ parked' = parked
    BY <1>4 DEF Commit, brokerVars
  <2>. QED BY <2>1, <2>2, <2>3 DEF Promise!Next, Promise!Apply
<1>5. ASSUME NEW w \in Workers, Park(w) PROVE Promise!Next
  <2>1. held[w][1] \in Event /\ held[w][1] \in staged
    BY <1>5, MsgFacts DEF Park, Holding, Sourced, Committed
  <2>2. parked' = parked \union {held[w][1]} /\ staged' = staged /\ effect' = effect
    BY <1>5 DEF Park, dbVars
  <2>. QED BY <2>1, <2>2 DEF Promise!Next, Promise!Park
<1>6. ASSUME NEW w \in Workers, \/ WorkerStep(w) /\ ~Commit(w) /\ ~Park(w)
                                \/ ChannelLost(w) \/ WorkerCrash(w)
      PROVE  [Promise!Next]_(Promise!vars)
  BY <1>1, <1>6 DEF WorkerStep, Claim, SkipDuplicate, HandlerError, Ack, Nack, ParkError,
     ChannelLost, WorkerCrash, brokerVars, dbVars
<1>7. ASSUME NEW w \in Workers, NEW m \in Msg, Deliver(w, m) PROVE [Promise!Next]_(Promise!vars)
  BY <1>1, <1>7 DEF Deliver, dbVars
<1>8. ASSUME NEW m \in Msg, RetryExpires(m) PROVE [Promise!Next]_(Promise!vars)
  BY <1>1, <1>8 DEF RetryExpires, dbVars
<1>9. CASE UNCHANGED vars
  BY <1>1, <1>9 DEF vars, brokerVars, dbVars
<1>. QED BY <1>2, <1>3, <1>4, <1>5, <1>6, <1>7, <1>8, <1>9 DEF Next

(* The relay, broker and safe consumer implement the event plane's promise:
   an event takes effect at most once and only after it was committed. *)
THEOREM PlaneImplementsPromise == Spec => Promise!Safety
<1>1. Init => PlaneInv
  <2>1. Init => EffectInv
    BY TypeInit DEF Init, EffectInv, Holding, ClaimExclusive, ClaimFresh, EffectIsClaim
  <2>2. Init => RelayInv /\ Sourced
    BY TypeInit DEF Init, RelayInv, Locks, PaidFor, SentNow, Sourced
  <2>. QED BY <2>1, <2>2 DEF PlaneInv
<1>2. PlaneInv /\ [Next]_vars => PlaneInv'
  BY EffectInvStep, RelayInvStep, SourcedStep DEF PlaneInv, EffectInv
<1>3. Init => Promise!Init
  BY DEF Init, Promise!Init
<1>. QED BY <1>1, <1>2, <1>3, PromiseStep, PTL DEF Spec, Promise!Safety

-----------------------------------------------------------------------------
(* The retry queue is bounded. *)

(* A copy on a trip through the retry queue has budget left for it, whatever
   redeliveries and crashes it has been through: only Nack sends it there, and
   what decide_retry compares is the copy's own x-death count. *)
OnTripWithinBudget == \A m \in Msg : place[m] = "retry" => deaths[m] < MaxRetries

BudgetInv == TypeOK /\ OnTripWithinBudget /\ RetryBudget

(* Among the steps that touch a copy only Nack puts it in the retry queue, and
   only RetryExpires counts a trip. *)
LEMMA TripsAreNacked ==
  ASSUME TypeOK, Holding, [Next]_vars, NEW m \in Msg
  PROVE  \/ /\ deaths'[m] = deaths[m]
            /\ place'[m] = "retry" => place[m] = "retry" \/ deaths[m] < MaxRetries
         \/ place[m] = "retry" /\ place'[m] = "queue" /\ deaths'[m] = deaths[m] + 1
<1> USE DEF TypeOK
<1>1. ASSUME NEW w \in Workers, Nack(w)
      PROVE  /\ deaths' = deaths
             /\ \/ place'[m] = place[m]
                \/ place'[m] = "retry" /\ deaths[m] < MaxRetries
  <2>1. deaths[held[w]] < MaxRetries
    <3>1. held[w] \in Msg /\ ~(deaths[held[w]] >= MaxRetries)
      BY <1>1 DEF Nack, OutOfBudget, Holding
    <3>2. deaths[held[w]] \in Nat /\ MaxRetries \in Nat
      BY <3>1, BoundsAssumption
    <3>. QED BY <3>1, <3>2
  <2>2. deaths' = deaths /\ (place' = place \/ place' = [place EXCEPT ![held[w]] = "retry"])
    BY <1>1 DEF Nack
  <2>3. CASE m = held[w]
    BY <2>1, <2>2, <2>3
  <2>4. CASE m # held[w]
    BY <2>2, <2>4
  <2>. QED BY <2>2, <2>3, <2>4
<1>2. ASSUME NEW w \in Workers, WorkerStep(w) \/ ChannelLost(w) \/ WorkerCrash(w), ~Nack(w)
      PROVE  deaths' = deaths /\ (place'[m] = place[m] \/ place'[m] \in {"queue", "acked"})
  BY <1>2 DEF WorkerStep, Claim, SkipDuplicate, Commit, HandlerError, Ack, Acked, Park, ParkError,
              ChannelLost, WorkerCrash, Requeued, Move, brokerVars
<1>3. ASSUME NEW r \in Relays, RelayStep(r) \/ RelayFault(r)
      PROVE  deaths' = deaths /\ (place'[m] = place[m] \/ place'[m] = "queue")
  BY <1>3 DEF RelayStep, RelayFault, Drain, Publish, PublishError, PublishLost, MarkAndCommit,
              RelayAbort, Enqueue, brokerVars
<1>4. ASSUME NEW w \in Workers, NEW x \in Msg, Deliver(w, x)
      PROVE  deaths' = deaths /\ (place'[m] = place[m] \/ place'[m] = "held")
  BY <1>4 DEF Deliver, Move
<1>5. ASSUME NEW x \in Msg, RetryExpires(x)
      PROVE  \/ deaths'[m] = deaths[m] /\ place'[m] = place[m]
             \/ place[m] = "retry" /\ place'[m] = "queue" /\ deaths'[m] = deaths[m] + 1
  BY <1>5 DEF RetryExpires, Move
<1>6. CASE (\E e \in Event : Stage(e)) \/ UNCHANGED vars
  BY <1>6 DEF Stage, brokerVars, vars
<1>. QED BY <1>1, <1>2, <1>3, <1>4, <1>5, <1>6 DEF Next

(* A copy takes at most MaxRetries trips through the retry queue (decide_retry
   with its inclusive boundary), for any budget: zero allows no trip at all. *)
THEOREM RetriesAreBounded == Spec => []RetryBudget
<1>1. Init => BudgetInv
  BY TypeInit, BoundsAssumption DEF Init, BudgetInv, OnTripWithinBudget, RetryBudget
<1>2. BudgetInv /\ Holding /\ [Next]_vars => BudgetInv'
  <2> SUFFICES ASSUME BudgetInv, Holding, [Next]_vars
               PROVE  OnTripWithinBudget' /\ RetryBudget'
    BY NextType DEF BudgetInv
  <2>1. ASSUME NEW m \in Msg
        PROVE  /\ place'[m] = "retry" => deaths'[m] < MaxRetries
               /\ deaths'[m] <= MaxRetries
    <3>1. /\ deaths[m] \in Nat /\ MaxRetries \in Nat
          /\ place[m] = "retry" => deaths[m] < MaxRetries
          /\ deaths[m] <= MaxRetries
      BY BoundsAssumption DEF BudgetInv, TypeOK, OnTripWithinBudget, RetryBudget
    <3>2. \/ /\ deaths'[m] = deaths[m]
             /\ place'[m] = "retry" => place[m] = "retry" \/ deaths[m] < MaxRetries
          \/ place[m] = "retry" /\ place'[m] = "queue" /\ deaths'[m] = deaths[m] + 1
      BY TripsAreNacked DEF BudgetInv
    <3>. QED BY <3>1, <3>2
  <2>. QED BY <2>1 DEF OnTripWithinBudget, RetryBudget
<1>3. BudgetInv => RetryBudget
  BY DEF BudgetInv
<1>4. EffectInv => Holding
  BY DEF EffectInv
<1>. QED BY <1>1, <1>2, <1>3, <1>4, EffectInvHolds, PTL DEF Spec
================================================================================
