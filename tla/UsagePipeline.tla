---------------------------- MODULE UsagePipeline ----------------------------
(***************************************************************************)
(* Usage from the network to the balance: mediation admits a record        *)
(* (services/mediation), rating turns it into a decrement                  *)
(* (services/rating), subscription applies it (consumer.rs).               *)
(*                                                                         *)
(* Mediation and rating publish inline, without a message id, before their *)
(* audit row is written with the flag published_to_mq; a row whose flag is *)
(* FALSE is published again by a relay of another service, with its id.    *)
(* The copies with an id take effect once (module Outbox); here they are   *)
(* counted by row.  Rating keeps no inbox and acknowledges what fails.     *)
(*                                                                         *)
(* A number passes from one subscription to the next.  handle_usage_rated  *)
(* is one step here; its interleavings are in Subscription.                *)
(***************************************************************************)
EXTENDS Integers, FiniteSets

CONSTANTS
    Cdr,          \* usage records posted to mediation
    Posted,       \* the bodies that can be posted: [Cdr -> [usage, roaming, quantity]]
    Sub,          \* subscriptions that hold the number one after the other
    NoSub,
    Rater,        \* rating processes
    Plan,         \* allowance types in the tariff of each subscription
    Total,        \* quantity of each allowance
    MaxChanges,   \* bound: top-ups
    MaxOutages,   \* bound: publishes that report an error
    MaxFaults     \* bound: crashes, lost messages, database and catalogue errors

Allowance == {"data", "voice", "data_roaming"}

(* UsageCreateRequest; "fax" stands for every unknown event type. *)
Body == [usage : {"data", "voice", "fax"}, roaming : BOOLEAN, quantity : Int]

ASSUME UsageAssumption ==
    /\ Posted \subseteq [Cdr -> Body]
    /\ NoSub \notin Sub
    /\ IsFiniteSet(Rater)
    /\ Plan \in [Sub -> SUBSET Allowance]
    /\ {Total, MaxChanges, MaxOutages, MaxFaults} \subseteq Nat

VARIABLES
    kind,         \* the body of each request
    state,        \* subscription.state; "none" before activation
    balance,      \* bundle_balance rows: [total, consumed]
    at,           \* what mediation has done for each record
    holder,       \* the subscription the record was enriched with
    recorded,     \* copies of usage.recorded in rating's queue
    work,         \* each rating process: the record and the outcome's publication
    rated,        \* copies of usage.rated in subscription's queue
    unpublished,  \* committed audit rows a relay still has to publish
    applied,      \* decrements made per record and allowance (history)
    settled,      \* records with an outcome: applied, rejected, refused (history)
    changes, outages, faults

mediation == <<kind, at, holder>>
subscription == <<state, balance, applied>>
vars == <<subscription, mediation, recorded, work, rated, unpublished, settled, changes,
          outages, faults>>

Event == {"recorded", "rejected", "rated"}
Stage == {"new", "enriched", "rejecting", "sent", "unsent",
          "recorded", "rejected", "refused", "failed"}
NoWork == [at |-> "idle"]
Work == [at : {"taken", "sent", "unsent"}, cdr : Cdr]

TypeOK ==
    /\ state \in [Sub -> {"none", "active", "blocked", "terminated"}]
    /\ balance \in [Sub -> [Allowance -> [total : Nat, consumed : Nat]]]
    /\ kind \in Posted
    /\ at \in [Cdr -> Stage]
    /\ holder \in [Cdr -> Sub \union {NoSub}]
    /\ recorded \in [Cdr -> Nat]
    /\ work \in [Rater -> Work \union {NoWork}]
    /\ rated \in [Cdr -> Nat]
    /\ unpublished \in [Event -> [Cdr -> Nat]]
    /\ applied \in [Cdr -> [Allowance -> Nat]]
    /\ settled \subseteq Cdr
    /\ changes \in 0 .. MaxChanges
    /\ outages \in 0 .. MaxOutages
    /\ faults \in 0 .. MaxFaults

Init ==
    /\ state = [s \in Sub |-> "none"]
    /\ balance = [s \in Sub |-> [a \in Allowance |-> [total |-> Total, consumed |-> 0]]]
    /\ kind \in Posted
    /\ at = [c \in Cdr |-> "new"]
    /\ holder = [c \in Cdr |-> NoSub]
    /\ recorded = [c \in Cdr |-> 0]
    /\ work = [w \in Rater |-> NoWork]
    /\ rated = [c \in Cdr |-> 0]
    /\ unpublished = [e \in Event |-> [c \in Cdr |-> 0]]
    /\ applied = [c \in Cdr |-> [a \in Allowance |-> 0]]
    /\ settled = {}
    /\ changes = 0 /\ outages = 0 /\ faults = 0

NoFault == UNCHANGED <<outages, faults>>
Fault == faults < MaxFaults /\ faults' = faults + 1 /\ UNCHANGED outages
Outage == outages < MaxOutages /\ outages' = outages + 1 /\ UNCHANGED faults

More(q, c) == [q EXCEPT ![c] = @ + 1]
Less(q, c) == [q EXCEPT ![c] = @ - 1]

-----------------------------------------------------------------------------
(* The subscriptions of the number: activation, top-up, termination. *)

Activate(s) ==
    /\ state[s] = "none"
    /\ \A t \in Sub : state[t] \in {"none", "terminated"}     \* the partial unique index
    /\ state' = [state EXCEPT ![s] = "active"]
    /\ UNCHANGED <<balance, applied, mediation, recorded, work, rated, unpublished, settled,
                   changes, outages, faults>>

TopUp(s) ==
    /\ state[s] \in {"active", "blocked"}
    /\ "data" \in Plan[s]
    /\ changes < MaxChanges
    /\ changes' = changes + 1
    /\ state' = [state EXCEPT ![s] = "active"]
    /\ balance' = [balance EXCEPT ![s]["data"].total = @ + Total]
    /\ UNCHANGED <<applied, mediation, recorded, work, rated, unpublished, settled, outages, faults>>

Terminate(s) ==
    /\ state[s] \in {"active", "blocked"}
    /\ state' = [state EXCEPT ![s] = "terminated"]
    /\ UNCHANGED <<balance, applied, mediation, recorded, work, rated, unpublished, settled,
                   changes, outages, faults>>

-----------------------------------------------------------------------------
(* mediation: ingest. *)

MediationGoes(c, p) == at' = [at EXCEPT ![c] = p]
MediationOnly == UNCHANGED <<subscription, recorded, work, rated, unpublished, settled, changes>>

(* check_positive_quantity, check_valid_event_type *)
WellFormed(c) == kind[c].quantity > 0 /\ kind[c].usage # "fax"

(* 422, no trace. *)
Refuse(c) ==
    /\ at[c] = "new"
    /\ ~WellFormed(c)
    /\ MediationGoes(c, "refused")
    /\ MediationOnly /\ UNCHANGED <<kind, holder, outages, faults>>

(* get_by_msisdn filters on the number only: a terminated subscription that
   held it before can be the row. *)
Rows == {s \in Sub : state[s] # "none"}

(* check_subscription_active *)
Admits(s) == state[s] = "active"

Enrich(c) ==
    /\ at[c] = "new"
    /\ WellFormed(c)
    /\ \/ \E s \in Rows :
            /\ MediationGoes(c, IF Admits(s) THEN "enriched" ELSE "rejecting")
            /\ holder' = [holder EXCEPT ![c] = s]
            /\ NoFault
       \/ /\ Rows = {}                                       \* NotFound
          /\ MediationGoes(c, "rejecting")
          /\ UNCHANGED <<holder, outages, faults>>
       \/ /\ Fault                                          \* any other client error
          /\ MediationGoes(c, "failed")
          /\ UNCHANGED holder
    /\ MediationOnly /\ UNCHANGED kind

(* record_rejection: a transaction of its own whose failure is swallowed. *)
RecordRejection(c) ==
    /\ at[c] = "rejecting"
    /\ MediationGoes(c, "rejected")
    /\ \/ UNCHANGED <<unpublished, outages, faults>>
       \/ Outage /\ unpublished' = [unpublished EXCEPT !["rejected"] = More(@, c)]
       \/ Fault /\ UNCHANGED unpublished
    /\ UNCHANGED <<subscription, kind, holder, recorded, work, rated, settled, changes>>

(* publish_json: it may fail although the broker has the message, and succeed
   although it has not. *)
Publishes(q, c, ok) ==
    /\ q' \in {q, More(q, c)}
    /\ IF ~ ok THEN Outage ELSE IF q' = q THEN Fault ELSE NoFault

(* begin, next_id, insert, and the inline publish in the open transaction. *)
InsertAndPublish(c) ==
    /\ at[c] = "enriched"
    /\ \E ok \in BOOLEAN : Publishes(recorded, c, ok) /\ MediationGoes(c, IF ok THEN "sent" ELSE "unsent")
    /\ UNCHANGED <<subscription, kind, holder, work, rated, unpublished, settled, changes>>

(* The audit row joins the transaction with the flag known by then. *)
CommitRecorded(c) ==
    /\ at[c] \in {"sent", "unsent"}
    /\ MediationGoes(c, "recorded")
    /\ unpublished' = IF at[c] = "unsent"
                      THEN [unpublished EXCEPT !["recorded"] = More(@, c)] ELSE unpublished
    /\ UNCHANGED <<subscription, kind, holder, recorded, work, rated, settled, changes, outages, faults>>

(* db_to_upstream: what was published stays published. *)
RollBack(c) ==
    /\ at[c] \in {"enriched", "sent", "unsent"}
    /\ MediationGoes(c, "failed")
    /\ Fault
    /\ UNCHANGED <<subscription, kind, holder, recorded, work, rated, unpublished, settled, changes>>

-----------------------------------------------------------------------------
(* A relay publishes the row with its id; usage.rejected has no consumer. *)
Relay(e, c) ==
    /\ unpublished[e][c] > 0
    /\ \/ unpublished' = [unpublished EXCEPT ![e] = Less(@, c)] /\ NoFault
       \/ Fault /\ e # "rated" /\ UNCHANGED unpublished      \* not marked: again later
    /\ recorded' = IF e = "recorded" THEN More(recorded, c) ELSE recorded
    /\ rated' = IF e = "rated" THEN More(rated, c) ELSE rated
    /\ UNCHANGED <<subscription, mediation, work, settled, changes>>

-----------------------------------------------------------------------------
(* rating: the consume loop. *)

WorkGoes(w, p) == work' = [work EXCEPT ![w] = p]

Take(w, c) ==
    /\ work[w] = NoWork
    /\ recorded[c] > 0
    /\ recorded' = Less(recorded, c)
    /\ WorkGoes(w, [at |-> "taken", cdr |-> c])
    /\ UNCHANGED <<subscription, mediation, rated, unpublished, settled, changes, outages, faults>>

(* rate_usage finds the allowance in the tariff. *)
Rateable(c) == kind[c].usage \in Plan[holder[c]]

(* Mutant: the roaming indicator is not read. *)
Target_Home(c) == kind[c].usage

(* decide_usage_outcome: the allowance usage.rated names. *)
Target(c) ==
    IF kind[c].roaming /\ kind[c].usage = "data" THEN "data_roaming" ELSE kind[c].usage

(* A RatingError, a catalogue error: logged, and acknowledged. *)
RatingFails(w) ==
    /\ work[w].at = "taken"
    /\ \/ ~Rateable(work[w].cdr) /\ NoFault
       \/ Fault
    /\ settled' = IF Rateable(work[w].cdr) THEN settled ELSE settled \union {work[w].cdr}
    /\ WorkGoes(w, NoWork)
    /\ UNCHANGED <<subscription, mediation, recorded, rated, unpublished, changes>>

(* Roaming data without a data_roaming allowance: usage.rejected. *)
RejectRoaming(w) ==
    /\ work[w].at = "taken"
    /\ Rateable(work[w].cdr) /\ Target(work[w].cdr) \notin Plan[holder[work[w].cdr]]
    /\ settled' = settled \union {work[w].cdr}
    /\ \/ UNCHANGED <<unpublished, outages, faults>>
       \/ Outage /\ unpublished' = [unpublished EXCEPT !["rejected"] = More(@, work[w].cdr)]
    /\ WorkGoes(w, NoWork)
    /\ UNCHANGED <<subscription, mediation, recorded, rated, changes>>

(* stage_and_publish: the publication, then the audit row and the ack. *)
PublishRated(w) ==
    /\ work[w].at = "taken"
    /\ Rateable(work[w].cdr) /\ Target(work[w].cdr) \in Plan[holder[work[w].cdr]]
    /\ \E ok \in BOOLEAN :
          /\ Publishes(rated, work[w].cdr, ok)
          /\ WorkGoes(w, [work[w] EXCEPT !.at = IF ok THEN "sent" ELSE "unsent"])
    /\ UNCHANGED <<subscription, mediation, recorded, unpublished, settled, changes>>

(* Mutant: the flag keeps its default, FALSE. *)
CommitRated_Unflagged(w) ==
    /\ work[w].at \in {"sent", "unsent"}
    /\ unpublished' = [unpublished EXCEPT !["rated"] = More(@, work[w].cdr)]
    /\ WorkGoes(w, NoWork)
    /\ UNCHANGED <<subscription, mediation, recorded, rated, settled, changes, outages, faults>>

(* Mutant: the row is always written as published. *)
CommitRated_Published(w) ==
    /\ work[w].at \in {"sent", "unsent"}
    /\ WorkGoes(w, NoWork)
    /\ UNCHANGED <<subscription, mediation, recorded, rated, unpublished, settled, changes, outages, faults>>

CommitRated(w) ==
    /\ work[w].at \in {"sent", "unsent"}
    /\ unpublished' = IF work[w].at = "unsent"
                      THEN [unpublished EXCEPT !["rated"] = More(@, work[w].cdr)]
                      ELSE unpublished
    /\ WorkGoes(w, NoWork)
    /\ UNCHANGED <<subscription, mediation, recorded, rated, settled, changes, outages, faults>>

(* The insert fails: logged, acknowledged. *)
CommitRatedFails(w) ==
    /\ work[w].at \in {"sent", "unsent"}
    /\ Fault
    /\ WorkGoes(w, NoWork)
    /\ UNCHANGED <<subscription, mediation, recorded, rated, unpublished, settled, changes>>

(* The process or its connection dies before the ack: delivered again. *)
RaterCrash(w) ==
    /\ work[w] # NoWork
    /\ Fault
    /\ recorded' = More(recorded, work[w].cdr)
    /\ WorkGoes(w, NoWork)
    /\ UNCHANGED <<subscription, mediation, rated, unpublished, settled, changes>>

-----------------------------------------------------------------------------
(* subscription: handle_usage_rated. *)

Remaining(b) == b.total - b.consumed

(* consume: what the bundle does not cover is dropped. *)
Consume(b, q) == [b EXCEPT !.consumed = IF @ + q <= b.total THEN @ + q ELSE b.total]

(* is_exhausted looks at the primary allowance, data. *)
Exhausted(s, bs) == "data" \notin Plan[s] \/ Remaining(bs["data"]) <= 0

(* check_roaming_balance_required *)
RoamingCovered(s, a) == a = "data_roaming" => Remaining(balance[s][a]) > 0

Applies(c) == state[holder[c]] = "active" /\ RoamingCovered(holder[c], Target(c))

(* Mutant: the trigger is written instead of the state. *)
Decrement_Trigger(c) ==
    /\ state' = [state EXCEPT ![holder[c]] = "exhausted"]
    /\ UNCHANGED <<balance, applied>>

Decrement(c) ==
    LET s == holder[c]
        a == Target(c)
        b == [balance[s] EXCEPT ![a] = Consume(@, kind[c].quantity)]
    IN  /\ balance' = [balance EXCEPT ![s] = b]
        /\ state' = [state EXCEPT ![s] = IF Exhausted(s, b) THEN "blocked" ELSE @]
        /\ applied' = [applied EXCEPT ![c][a] = @ + 1]

(* A subscription that is not active and uncovered roaming use nothing.  A copy
   without an id is applied again when the ack is lost. *)
HandleUsageRated(c) ==
    /\ rated[c] > 0
    /\ IF Applies(c) THEN Decrement(c) ELSE UNCHANGED subscription
    /\ \/ rated' = Less(rated, c) /\ NoFault
       \/ Fault /\ UNCHANGED rated
    /\ settled' = settled \union {c}
    /\ UNCHANGED <<mediation, recorded, work, unpublished, changes>>

-----------------------------------------------------------------------------

Ingest(c) ==
    Refuse(c) \/ Enrich(c) \/ RecordRejection(c) \/ InsertAndPublish(c) \/ CommitRecorded(c)

Rate(w) ==
    RatingFails(w) \/ RejectRoaming(w) \/ PublishRated(w) \/ CommitRated(w) \/ CommitRatedFails(w)

Next ==
    \/ \E s \in Sub : Activate(s) \/ TopUp(s) \/ Terminate(s)
    \/ \E c \in Cdr : Ingest(c) \/ RollBack(c) \/ HandleUsageRated(c)
    \/ \E e \in Event, c \in Cdr : Relay(e, c)
    \/ \E w \in Rater : Rate(w) \/ RaterCrash(w) \/ \E c \in Cdr : Take(w, c)

Spec == Init /\ [][Next]_vars

(* Handlers end, the relays tick, the consumers consume. *)
Fairness ==
    /\ \A c \in Cdr : WF_vars(Ingest(c)) /\ WF_vars(HandleUsageRated(c))
    /\ \A e \in Event, c \in Cdr : WF_vars(Relay(e, c))
    /\ \A w \in Rater : WF_vars(Rate(w)) /\ WF_vars(\E c \in Cdr : Take(w, c))

FairSpec == Spec /\ Fairness

-----------------------------------------------------------------------------
(* Properties. *)

Decrements(c) == applied[c]["data"] + applied[c]["voice"] + applied[c]["data_roaming"]

(* Whatever the inline publishes, relays and redeliveries make of it, a record
   is decremented once more for each failure at most, and once if nothing fails:
   published_to_mq keeps a relay from repeating what rating
   and mediation have published. *)
DuplicatesNeedFaults == \A c \in Cdr : Decrements(c) > 0 => Decrements(c) - 1 <= outages + faults

(* "roaming ... policy-gated independently from home data": no redelivery, tariff
   or exhausted balance lets roaming data eat the home bundle or the reverse. *)
PocketsApart ==
    \A c \in Cdr :
        /\ kind[c].roaming => applied[c]["data"] = 0
        /\ ~kind[c].roaming => applied[c]["data_roaming"] = 0

(* While only publishes fail and are reported so, no admitted usage is lost: it
   gets its outcome through the relay. *)
Silent(c) == at[c] = "recorded" /\ c \notin settled

RecordedIsSettled == \A c \in Cdr : Silent(c) ~> ~Silent(c) \/ faults > 0
=============================================================================
