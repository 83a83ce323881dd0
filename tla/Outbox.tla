------------------------------- MODULE Outbox --------------------------------
(***************************************************************************)
(* The transactional-outbox event plane of crates/bss-events.              *)
(*                                                                         *)
(* A service commits an audit.domain_event row with its domain write.      *)
(* Relays (one per com, som and subscription process, and one more per     *)
(* replica) drain the shared table: lock a batch, publish it row by row,   *)
(* mark what was published, commit.  Consumers of one queue process        *)
(* deliveries one at a time, with an inbox claim and the handler's writes  *)
(* in one transaction, and retry or park what fails.                       *)
(*                                                                         *)
(* A message is a copy of an event: <<e, k>> is the k-th copy of event e   *)
(* that reached the broker.  A queue is the set of copies in it, because   *)
(* prefetch, competing workers and redelivery leave no order to rely on.   *)
(***************************************************************************)
EXTENDS Naturals, FiniteSets

CONSTANTS
    NumEvents,    \* events are numbered in their (occurred_at, id) order
    Relays,       \* relay processes sharing the table
    Workers,      \* consumer processes sharing the queue
    BatchSize,    \* rows locked by one drain
    MaxRetries,   \* retry budget of the consumer (mq_max_retries)
    MaxCopies,    \* bound: copies of one event the model lets reach the broker
    MaxFaults,    \* bound: relay aborts, publish errors, lost connections, crashes
    MaxLost       \* bound: publishes the broker never received, reported as Ok

ASSUME BoundsAssumption ==
    /\ NumEvents \in Nat
    /\ BatchSize \in Nat \ {0}
    /\ MaxRetries \in Nat
    /\ MaxCopies \in Nat
    /\ MaxFaults \in Nat
    /\ MaxLost \in Nat

Event == 1 .. NumEvents
Msg == Event \X (1 .. MaxCopies)
NoMsg == <<0, 0>>

VARIABLES
    row,        \* committed audit.domain_event rows
    batch,      \* rows a relay's open transaction has locked
    tried,      \* rows of the batch it already passed to the publisher
    sent,       \* those of them the publisher reported Ok for
    copies,     \* copies of an event that reached the broker so far
    place,      \* where the broker has a copy
    deaths,     \* x-death count of a copy
    parked,     \* events with a message in the parked queue
    held,       \* the delivery a worker is processing
    live,       \* whether that delivery's channel is still the broker's
    phase,      \* how far process_one and the settling of it got
    inbox,      \* committed processed_event rows of the consumer
    effect,     \* committed runs of the handler, per event
    faults, lost   \* bounded fault counters

relayVars == <<batch, tried, sent>>
brokerVars == <<copies, place, deaths, parked>>
workerVars == <<held, live, phase>>
dbVars == <<inbox, effect>>
boundVars == <<faults, lost>>
vars == <<row, relayVars, brokerVars, workerVars, dbVars, boundVars>>

Place == {"none", "queue", "held", "retry", "acked"}
Phase == {"idle", "received", "claimed", "failed", "settled"}

TypeOK ==
    /\ row \in [Event -> {"absent", "unpublished", "published"}]
    /\ batch \in [Relays -> SUBSET Event]
    /\ tried \in [Relays -> SUBSET Event]
    /\ sent \in [Relays -> SUBSET Event]
    /\ copies \in [Event -> 0 .. MaxCopies]
    /\ place \in [Msg -> Place]
    /\ deaths \in [Msg -> Nat]
    /\ parked \in SUBSET Event
    /\ held \in [Workers -> Msg \union {NoMsg}]
    /\ live \in [Workers -> BOOLEAN]
    /\ phase \in [Workers -> Phase]
    /\ inbox \in SUBSET Event
    /\ effect \in [Event -> Nat]
    /\ faults \in Nat
    /\ lost \in Nat

Init ==
    /\ row = [e \in Event |-> "absent"]
    /\ batch = [r \in Relays |-> {}]
    /\ tried = [r \in Relays |-> {}]
    /\ sent = [r \in Relays |-> {}]
    /\ copies = [e \in Event |-> 0]
    /\ place = [m \in Msg |-> "none"]
    /\ deaths = [m \in Msg |-> 0]
    /\ parked = {}
    /\ held = [w \in Workers |-> NoMsg]
    /\ live = [w \in Workers |-> FALSE]
    /\ phase = [w \in Workers |-> "idle"]
    /\ inbox = {}
    /\ effect = [e \in Event |-> 0]
    /\ faults = 0 /\ lost = 0

-----------------------------------------------------------------------------
(* The producer and the relays. *)

(* stage_event's row commits with the domain write; transactions commit in
   any order, whatever the rows' occurred_at. *)
Stage(e) ==
    /\ row[e] = "absent"
    /\ row' = [row EXCEPT ![e] = "unpublished"]
    /\ UNCHANGED <<relayVars, brokerVars, workerVars, dbVars, boundVars>>

Fault == faults < MaxFaults /\ faults' = faults + 1

(* Mutant: the drain query without FOR UPDATE SKIP LOCKED. *)
Drainable_Unlocked == {e \in Event : row[e] = "unpublished"}

(* Rows DRAIN_SQL may return: unpublished, and not locked by a transaction. *)
Drainable == {e \in Event : row[e] = "unpublished" /\ \A r \in Relays : e \notin batch[r]}

(* ORDER BY occurred_at, id LIMIT BatchSize *)
Oldest(S) == {e \in S : Cardinality({d \in S : d < e}) < BatchSize}

Drain(r) ==
    /\ batch[r] = {}
    /\ Drainable # {}
    /\ batch' = [batch EXCEPT ![r] = Oldest(Drainable)]
    /\ UNCHANGED <<row, tried, sent, brokerVars, workerVars, dbVars, boundVars>>

(* drain_batch publishes in row order: e is the first row not tried yet. *)
NextRow(r, e) ==
    /\ e \in batch[r] \ tried[r]
    /\ \A d \in batch[r] \ tried[r] : e <= d

Tried(r, e) == tried' = [tried EXCEPT ![r] = @ \union {e}]
Sent(r, e) == sent' = [sent EXCEPT ![r] = @ \union {e}]

(* One more copy of e reaches the exchange and is routed to the queue. *)
Enqueue(e) ==
    /\ copies[e] < MaxCopies
    /\ copies' = [copies EXCEPT ![e] = @ + 1]
    /\ place' = [place EXCEPT ![<<e, copies[e] + 1>>] = "queue"]
    /\ UNCHANGED <<deaths, parked>>

Publish(r, e) ==
    /\ NextRow(r, e)
    /\ Tried(r, e) /\ Sent(r, e)
    /\ Enqueue(e)
    /\ UNCHANGED <<row, batch, workerVars, dbVars, boundVars>>

(* publish_on returns Err; the frame may or may not have got through. *)
PublishError(r, e) ==
    /\ NextRow(r, e)
    /\ Fault
    /\ Tried(r, e)
    /\ Enqueue(e) \/ UNCHANGED brokerVars
    /\ UNCHANGED <<row, batch, sent, workerVars, dbVars, lost>>

(* The channel is not in confirm mode: Ok means the frame was written to the
   socket, and a connection that dies now takes the frame with it. *)
PublishLost(r, e) ==
    /\ NextRow(r, e)
    /\ lost < MaxLost
    /\ lost' = lost + 1
    /\ Tried(r, e) /\ Sent(r, e)
    /\ UNCHANGED <<row, batch, brokerVars, workerVars, dbVars, faults>>

ReleaseBatch(r) ==
    /\ batch' = [batch EXCEPT ![r] = {}]
    /\ tried' = [tried EXCEPT ![r] = {}]
    /\ sent' = [sent EXCEPT ![r] = {}]

(* Mutant: every row of the batch is marked, whatever its RowOutcome. *)
MarkAndCommit_All(r) ==
    /\ batch[r] # {} /\ tried[r] = batch[r]
    /\ row' = [e \in Event |-> IF e \in batch[r] THEN "published" ELSE row[e]]
    /\ ReleaseBatch(r)
    /\ UNCHANGED <<brokerVars, workerVars, dbVars, boundVars>>

(* Mutant: MARK_FAIL gives the row a status the drain query does not know. *)
MarkAndCommit_Failed(r) ==
    /\ batch[r] # {} /\ tried[r] = batch[r]
    /\ row' = [e \in Event |-> IF e \in sent[r] THEN "published"
                               ELSE IF e \in tried[r] THEN "failed" ELSE row[e]]
    /\ ReleaseBatch(r)
    /\ UNCHANGED <<brokerVars, workerVars, dbVars, boundVars>>

(* Every row tried: MARK_OK for what was sent, MARK_FAIL for the rest, commit. *)
MarkAndCommit(r) ==
    /\ batch[r] # {} /\ tried[r] = batch[r]
    /\ row' = [e \in Event |-> IF e \in sent[r] THEN "published" ELSE row[e]]
    /\ ReleaseBatch(r)
    /\ UNCHANGED <<brokerVars, workerVars, dbVars, boundVars>>

(* A mark or the commit fails, Relay::stop aborts the task, the process dies:
   the transaction is rolled back and its locks are gone. *)
RelayAbort(r) ==
    /\ batch[r] # {}
    /\ Fault
    /\ ReleaseBatch(r)
    /\ UNCHANGED <<row, brokerVars, workerVars, dbVars, lost>>

-----------------------------------------------------------------------------
(* The consumers of the queue: bind_consumer and process_one. *)

Goto(w, p) == phase' = [phase EXCEPT ![w] = p]
Idle(w) ==
    /\ Goto(w, "idle")
    /\ held' = [held EXCEPT ![w] = NoMsg]
    /\ live' = [live EXCEPT ![w] = FALSE]

Move(m, p) == place' = [place EXCEPT ![m] = p]

Deliver(w, m) ==
    /\ phase[w] = "idle"
    /\ place[m] = "queue"
    /\ Move(m, "held")
    /\ Goto(w, "received")
    /\ held' = [held EXCEPT ![w] = m]
    /\ live' = [live EXCEPT ![w] = TRUE]
    /\ UNCHANGED <<row, relayVars, copies, deaths, parked, dbVars, boundVars>>

(* CLAIM_INBOX_SQL waits for a concurrent claim of the same event to end. *)
ClaimLocked(e) == \E v \in Workers : phase[v] = "claimed" /\ held[v][1] = e

(* Mutant: the inbox is consulted without locking the claimed row. *)
Claim_Unlocked(w) ==
    /\ phase[w] = "received"
    /\ held[w][1] \notin inbox
    /\ Goto(w, "claimed")
    /\ UNCHANGED <<row, relayVars, brokerVars, held, live, dbVars, boundVars>>

Claim(w) ==
    LET e == held[w][1] IN
    /\ phase[w] = "received"
    /\ e \notin inbox
    /\ ~ClaimLocked(e)
    /\ Goto(w, "claimed")
    /\ UNCHANGED <<row, relayVars, brokerVars, held, live, dbVars, boundVars>>

(* The claim conflicts with a committed row: Processed::Duplicate. *)
SkipDuplicate(w) ==
    /\ phase[w] = "received"
    /\ held[w][1] \in inbox
    /\ Goto(w, "settled")
    /\ UNCHANGED <<row, relayVars, brokerVars, held, live, dbVars, boundVars>>

(* Mutant: the handler's writes commit without the inbox row. *)
ApplyEffect_NoClaim(e) ==
    /\ effect' = [effect EXCEPT ![e] = @ + 1]
    /\ UNCHANGED inbox

ApplyEffect(e) ==
    /\ inbox' = inbox \union {e}
    /\ effect' = [effect EXCEPT ![e] = @ + 1]

(* The handler returns Ok and the transaction commits; the reply to COMMIT may
   be lost, which process_one reports as an error. *)
Commit(w) ==
    /\ phase[w] = "claimed"
    /\ ApplyEffect(held[w][1])
    /\ \/ Goto(w, "settled") /\ UNCHANGED faults
       \/ Goto(w, "failed") /\ Fault
    /\ UNCHANGED <<row, relayVars, brokerVars, held, live, lost>>

(* begin, claim, handler or commit fails: everything is rolled back. *)
HandlerError(w) ==
    /\ phase[w] \in {"received", "claimed"}
    /\ Goto(w, "failed")
    /\ UNCHANGED <<row, relayVars, brokerVars, held, live, dbVars, boundVars>>

(* Settling a delivery needs the channel it came on; after a reconnect the
   ack or nack fails with a warning and the broker's copy is where it was. *)
Acked(w) ==
    /\ place' = IF live[w] THEN [place EXCEPT ![held[w]] = "acked"] ELSE place
    /\ Idle(w)

Ack(w) ==
    /\ phase[w] = "settled"
    /\ Acked(w)
    /\ UNCHANGED <<row, relayVars, copies, deaths, parked, dbVars, boundVars>>

(* decide_retry: the boundary is >= *)
OutOfBudget(m) == deaths[m] >= MaxRetries

(* Mutant: a queue declared without the dead-letter arguments. *)
Nack_NoDeadLetter(w) ==
    /\ phase[w] = "failed"
    /\ ~OutOfBudget(held[w])
    /\ Acked(w)
    /\ UNCHANGED <<row, relayVars, copies, deaths, parked, dbVars, boundVars>>

(* nack without requeue: the broker dead-letters the copy to the retry queue. *)
Nack(w) ==
    /\ phase[w] = "failed"
    /\ ~OutOfBudget(held[w])
    /\ place' = IF live[w] THEN [place EXCEPT ![held[w]] = "retry"] ELSE place
    /\ Idle(w)
    /\ UNCHANGED <<row, relayVars, copies, deaths, parked, dbVars, boundVars>>

Park(w) ==
    /\ phase[w] = "failed"
    /\ OutOfBudget(held[w])
    /\ parked' = parked \union {held[w][1]}
    /\ Goto(w, "settled")
    /\ UNCHANGED <<row, relayVars, copies, place, deaths, held, live, dbVars, boundVars>>

(* publish_parked returns Err: only logged, and the original is acked anyway.
   The park and the ack of a live delivery go through the one shared channel,
   so a park that fails means a channel on which the ack fails as well. *)
ParkError(w) ==
    /\ phase[w] = "failed"
    /\ OutOfBudget(held[w])
    /\ ~live[w]
    /\ Goto(w, "settled")
    /\ UNCHANGED <<row, relayVars, brokerVars, held, live, dbVars, boundVars>>

(* TTL expired: back through bss.events under the original routing key. *)
RetryExpires(m) ==
    /\ place[m] = "retry"
    /\ Move(m, "queue")
    /\ deaths' = [deaths EXCEPT ![m] = @ + 1]
    /\ UNCHANGED <<row, relayVars, copies, parked, workerVars, dbVars, boundVars>>

Requeued(w) == Move(held[w], "queue")

(* The channel dies: the broker requeues the unacked copy while the handler
   that is running goes on with it. *)
ChannelLost(w) ==
    /\ phase[w] # "idle" /\ live[w]
    /\ Fault
    /\ Requeued(w)
    /\ live' = [live EXCEPT ![w] = FALSE]
    /\ UNCHANGED <<row, relayVars, copies, deaths, parked, held, phase, dbVars, lost>>

(* The consumer process dies: an open transaction is rolled back. *)
WorkerCrash(w) ==
    /\ phase[w] # "idle"
    /\ Fault
    /\ IF live[w] THEN Requeued(w) ELSE UNCHANGED place
    /\ Idle(w)
    /\ UNCHANGED <<row, relayVars, copies, deaths, parked, dbVars, lost>>

-----------------------------------------------------------------------------

RelayStep(r) ==
    \/ Drain(r)
    \/ \E e \in Event : Publish(r, e)
    \/ MarkAndCommit(r)

RelayFault(r) ==
    \/ \E e \in Event : PublishError(r, e) \/ PublishLost(r, e)
    \/ RelayAbort(r)

WorkerStep(w) ==
    \/ Claim(w) \/ SkipDuplicate(w) \/ Commit(w) \/ HandlerError(w)
    \/ Ack(w) \/ Nack(w) \/ Park(w) \/ ParkError(w)

Next ==
    \/ \E e \in Event : Stage(e)
    \/ \E r \in Relays : RelayStep(r) \/ RelayFault(r)
    \/ \E w \in Workers : WorkerStep(w) \/ ChannelLost(w) \/ WorkerCrash(w)
    \/ \E w \in Workers, m \in Msg : Deliver(w, m)
    \/ \E m \in Msg : RetryExpires(m)

Spec == Init /\ [][Next]_vars

(* Relays tick for ever and publish what they locked; the broker delivers and
   expires TTLs; a worker finishes what it was handed (handlers have HTTP and
   database timeouts).  Nothing makes a handler succeed. *)
Fairness ==
    /\ \A r \in Relays : WF_vars(RelayStep(r))
    /\ \A w \in Workers : WF_vars(WorkerStep(w))
    /\ WF_vars(\E w \in Workers, m \in Msg : Deliver(w, m))
    /\ WF_vars(\E m \in Msg : RetryExpires(m))

FairSpec == Spec /\ Fairness

-----------------------------------------------------------------------------
(* Properties. *)

(* However often an event is published, redelivered, retried or replayed to
   two workers at once, the consumer's writes for it commit at most once
   (process_one: claim and handler share one transaction). *)
AtMostOnceEffect == \A e \in Event : effect[e] <= 1

(* A copy the broker still has to do something with. *)
InFlight(m) == place[m] \in {"queue", "held", "retry"}

(* "Delivery is at-least-once" (relay.rs): a row marked published has reached
   the broker at least once. *)
PublishedReachedBroker ==
    \A e \in Event : row[e] = "published" => copies[e] >= 1

(* An event that reached the broker is in effect, or parked, or still on its
   way: settling a delivery never loses the only copy (ack after commit, nack
   to the retry queue, park before ack). *)
NoSilentLoss ==
    \A e \in Event :
        copies[e] >= 1 =>
            \/ e \in inbox
            \/ e \in parked
            \/ \E k \in 1 .. MaxCopies : InFlight(<<e, k>>)

(* Two relays never send the same row twice of their own accord: every copy
   beyond the first was paid for by a fault (FOR UPDATE SKIP LOCKED). *)
DuplicatesNeedFaults == \A e \in Event : copies[e] <= 1 + faults

(* A copy takes at most MaxRetries trips through the retry queue. *)
RetryBudget == \A m \in Msg : deaths[m] <= MaxRetries

(* What the plane promises to producer and consumer. *)
Promise == INSTANCE EventEffect WITH staged <- {e \in Event : row[e] # "absent"}

PromiseKept == Promise!Spec

(* Every committed event ends in effect or parked, and no delivery stays open. *)
EverythingSettles ==
    /\ \A e \in Event : row[e] # "absent" ~> (e \in inbox \/ e \in parked)
    /\ \A m \in Msg : place[m] # "none" ~> place[m] = "acked"
=============================================================================
