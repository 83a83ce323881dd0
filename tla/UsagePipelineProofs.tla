-------------------------- MODULE UsagePipelineProofs --------------------------
(***************************************************************************)
(* What the usage pipeline keeps for any number of records, subscriptions, *)
(* rating processes and faults.                                            *)
(***************************************************************************)
EXTENDS UsagePipeline, FiniteSetTheorems, TLAPS

LEMMA NextCases ==
  ASSUME Next
  PROVE  \/ \E s \in Sub : Activate(s) \/ TopUp(s) \/ Terminate(s)
         \/ \E c \in Cdr : Refuse(c) \/ Enrich(c) \/ RecordRejection(c)
         \/ \E c \in Cdr : InsertAndPublish(c) \/ CommitRecorded(c) \/ RollBack(c)
         \/ \E c \in Cdr : HandleUsageRated(c)
         \/ \E e \in Event, c \in Cdr : Relay(e, c)
         \/ \E w \in Rater, c \in Cdr : Take(w, c)
         \/ \E w \in Rater : RatingFails(w) \/ RejectRoaming(w) \/ PublishRated(w)
         \/ \E w \in Rater : CommitRated(w) \/ CommitRatedFails(w) \/ RaterCrash(w)
  BY DEF Next, Ingest, Rate

(* One copy more or less of one record. *)
LEMMA CopyFacts ==
  ASSUME NEW q \in [Cdr -> Nat], NEW c \in Cdr
  PROVE  /\ More(q, c) \in [Cdr -> Nat] /\ More(q, c)[c] = q[c] + 1
         /\ \A d \in Cdr \ {c} : More(q, c)[d] = q[d] /\ Less(q, c)[d] = q[d]
         /\ q[c] > 0 => Less(q, c) \in [Cdr -> Nat] /\ Less(q, c)[c] = q[c] - 1
  BY DEF More, Less

(* What a publication may do to its queue and to the bounds. *)
LEMMA PublishFacts ==
  ASSUME TypeOK, NEW c \in Cdr, NEW ok \in BOOLEAN
  PROVE  /\ Publishes(recorded, c, ok) => recorded' \in {recorded, More(recorded, c)}
         /\ Publishes(rated, c, ok) => rated' \in {rated, More(rated, c)}
         /\ Publishes(recorded, c, ok) \/ Publishes(rated, c, ok) =>
              /\ faults' \in 0 .. MaxFaults /\ outages' \in 0 .. MaxOutages
              /\ outages' + faults' >= outages + faults
              /\ ~ok => outages' + faults' = outages + faults + 1
  BY UsageAssumption DEF Publishes, Outage, Fault, NoFault, TypeOK

(* A fault, an outage or neither. *)
LEMMA BoundsFacts ==
  ASSUME TypeOK
  PROVE  /\ Fault \/ Outage \/ NoFault =>
              /\ faults' \in 0 .. MaxFaults /\ outages' \in 0 .. MaxOutages
              /\ outages' + faults' >= outages + faults
         /\ Fault \/ Outage => outages' + faults' = outages + faults + 1
         /\ NoFault => outages' = outages /\ faults' = faults
  BY UsageAssumption DEF Outage, Fault, NoFault, TypeOK

LEMMA WorkFacts ==
  ASSUME TypeOK, NEW w \in Rater
  PROVE  /\ NoWork.at = "idle" /\ work[w].at \in {"idle", "taken", "sent", "unsent"}
         /\ work[w] # NoWork <=> work[w].at # "idle"
         /\ work[w] # NoWork => work[w] \in Work /\ work[w].cdr \in Cdr
         /\ \A p : WorkGoes(w, p) =>
              work'[w] = p /\ \A v \in Rater \ {w} : work'[v] = work[v]
  BY DEF TypeOK, Work, NoWork, WorkGoes

-----------------------------------------------------------------------------
(* Type correctness. *)

(* Rating has the record or may come to have it. *)
InRating(c) ==
  \/ at[c] \in {"enriched", "sent", "unsent", "recorded"}
  \/ recorded[c] > 0 \/ unpublished["recorded"][c] > 0
  \/ \E w \in Rater : work[w] # NoWork /\ work[w].cdr = c

(* Rating has found the allowance, and subscription has the outcome or may come to. *)
InBilling(c) ==
  \/ rated[c] > 0 \/ unpublished["rated"][c] > 0
  \/ \E w \in Rater : work[w].at \in {"sent", "unsent"} /\ work[w].cdr = c

(* What is on its way passed mediation's policies and has a holder; what was rated
   has its allowance in the holder's tariff. *)
Admitted(c) == at[c] # "new" /\ WellFormed(c) /\ holder[c] \in Sub
Priced(c) == Admitted(c) /\ Rateable(c) /\ Target(c) \in Plan[holder[c]]

FlowInv ==
  \A c \in Cdr : (InRating(c) => Admitted(c)) /\ (InBilling(c) => Priced(c))

TypeInv == TypeOK /\ FlowInv

LEMMA TypeInit == Init => TypeInv
<1> SUFFICES ASSUME Init PROVE TypeInv
  OBVIOUS
<1>1. balance \in [Sub -> [Allowance -> [total : Nat, consumed : Nat]]]
  BY UsageAssumption DEF Init
<1>2. changes \in 0 .. MaxChanges /\ outages \in 0 .. MaxOutages /\ faults \in 0 .. MaxFaults
  BY UsageAssumption DEF Init
<1>3. TypeOK
  BY <1>1, <1>2 DEF Init, TypeOK, Stage
<1>4. FlowInv
  BY DEF Init, FlowInv, InRating, InBilling, NoWork, Event
<1>. QED BY <1>3, <1>4 DEF TypeInv

(* The record and the subscription that held the number. *)
LEMMA PricedFacts ==
  ASSUME TypeOK, NEW c \in Cdr, Priced(c)
  PROVE  /\ holder[c] \in Sub /\ Target(c) \in Allowance
         /\ kind[c].quantity \in Nat
  BY UsageAssumption DEF TypeOK, Priced, Admitted, WellFormed, Body

LEMMA DecrementType ==
  ASSUME TypeOK, NEW c \in Cdr, Priced(c), Decrement(c)
  PROVE  /\ state' \in [Sub -> {"none", "active", "blocked", "terminated"}]
         /\ balance' \in [Sub -> [Allowance -> [total : Nat, consumed : Nat]]]
         /\ applied' \in [Cdr -> [Allowance -> Nat]]
<1> DEFINE s == holder[c]
           a == Target(c)
           Row == [total : Nat, consumed : Nat]
<1>1. s \in Sub /\ a \in Allowance /\ kind[c].quantity \in Nat
  BY PricedFacts
<1>2. balance[s] \in [Allowance -> Row] /\ balance[s][a] \in Row
  BY <1>1 DEF TypeOK
<1>3. Consume(balance[s][a], kind[c].quantity) \in Row
  BY <1>1, <1>2 DEF Consume
<1>4. [balance[s] EXCEPT ![a] = Consume(@, kind[c].quantity)] \in [Allowance -> Row]
  BY <1>1, <1>2, <1>3
<1>5. balance' \in [Sub -> [Allowance -> Row]]
  BY <1>4 DEF Decrement, TypeOK
<1>6. state' \in [Sub -> {"none", "active", "blocked", "terminated"}]
  BY <1>1 DEF Decrement, TypeOK
<1>7. applied' \in [Cdr -> [Allowance -> Nat]]
  BY <1>1 DEF Decrement, TypeOK
<1>. QED BY <1>5, <1>6, <1>7

(* Copies of events and rows to publish, one more or less. *)
LEMMA UnpublishedType ==
  ASSUME TypeOK, NEW e \in Event, NEW c \in Cdr
  PROVE  /\ unpublished[e] \in [Cdr -> Nat]
         /\ [unpublished EXCEPT ![e] = More(@, c)] \in [Event -> [Cdr -> Nat]]
         /\ unpublished[e][c] > 0 => [unpublished EXCEPT ![e] = Less(@, c)] \in [Event -> [Cdr -> Nat]]
  BY CopyFacts DEF TypeOK

LEMMA SubscriptionType ==
  ASSUME TypeOK, NEW s \in Sub, Activate(s) \/ TopUp(s) \/ Terminate(s)
  PROVE  TypeOK'
<1>1. CASE Activate(s) \/ Terminate(s)
  BY <1>1 DEF Activate, Terminate, TypeOK, mediation
<1>2. CASE TopUp(s)
  <2>1. balance' \in [Sub -> [Allowance -> [total : Nat, consumed : Nat]]]
    <3>1. balance[s] \in [Allowance -> [total : Nat, consumed : Nat]] /\ "data" \in Allowance
      BY DEF TypeOK, Allowance
    <3>2. balance[s]["data"] \in [total : Nat, consumed : Nat]
      BY <3>1
    <3>3. [balance[s]["data"] EXCEPT !.total = @ + Total] \in [total : Nat, consumed : Nat]
      BY <3>2, UsageAssumption
    <3>. QED BY <1>2, <3>1, <3>3 DEF TopUp, TypeOK
  <2>2. changes' \in 0 .. MaxChanges
    BY <1>2, UsageAssumption DEF TopUp, TypeOK
  <2>. QED BY <1>2, <2>1, <2>2 DEF TopUp, TypeOK, mediation
<1>. QED BY <1>1, <1>2

LEMMA MediationType ==
  ASSUME TypeOK, NEW c \in Cdr,
         \/ Refuse(c) \/ Enrich(c) \/ RecordRejection(c)
         \/ InsertAndPublish(c) \/ CommitRecorded(c) \/ RollBack(c)
  PROVE  TypeOK'
<1> USE DEF MediationOnly, MediationGoes, subscription, Stage
<1>1. CASE Refuse(c)
  BY <1>1 DEF Refuse, TypeOK
<1>2. CASE Enrich(c)
  <2>1. faults' \in 0 .. MaxFaults /\ outages' \in 0 .. MaxOutages
    BY <1>2, BoundsFacts DEF Enrich, NoFault
  <2>2. at' \in [Cdr -> Stage] /\ holder' \in [Cdr -> Sub \union {NoSub}]
    <3>1. at' = [at EXCEPT ![c] = "enriched"] \/ at' = [at EXCEPT ![c] = "rejecting"]
          \/ at' = [at EXCEPT ![c] = "failed"]
      BY <1>2 DEF Enrich
    <3>2. at' \in [Cdr -> Stage]
      BY <3>1 DEF TypeOK
    <3>3. holder' = holder \/ \E s \in Sub : holder' = [holder EXCEPT ![c] = s]
      BY <1>2 DEF Enrich, Rows
    <3>. QED BY <3>2, <3>3 DEF TypeOK
  <2>. QED BY <1>2, <2>1, <2>2 DEF Enrich, TypeOK
<1>3. CASE RecordRejection(c)
  <2>1. faults' \in 0 .. MaxFaults /\ outages' \in 0 .. MaxOutages
    BY <1>3, BoundsFacts DEF RecordRejection, NoFault
  <2>2. unpublished' \in [Event -> [Cdr -> Nat]]
    BY <1>3, UnpublishedType DEF RecordRejection, Event, TypeOK
  <2>. QED BY <1>3, <2>1, <2>2 DEF RecordRejection, TypeOK
<1>4. CASE InsertAndPublish(c)
  <2>1. PICK ok \in BOOLEAN : Publishes(recorded, c, ok) /\ MediationGoes(c, IF ok THEN "sent" ELSE "unsent")
    BY <1>4 DEF InsertAndPublish
  <2>2. recorded' \in [Cdr -> Nat] /\ faults' \in 0 .. MaxFaults /\ outages' \in 0 .. MaxOutages
    <3>1. recorded \in [Cdr -> Nat] /\ More(recorded, c) \in [Cdr -> Nat]
      BY CopyFacts DEF TypeOK
    <3>. QED BY <2>1, <3>1, PublishFacts
  <2>. QED BY <1>4, <2>1, <2>2 DEF InsertAndPublish, TypeOK
<1>5. CASE CommitRecorded(c)
  <2>1. unpublished' \in [Event -> [Cdr -> Nat]]
    BY <1>5, UnpublishedType DEF CommitRecorded, Event, TypeOK
  <2>. QED BY <1>5, <2>1 DEF CommitRecorded, TypeOK
<1>6. CASE RollBack(c)
  BY <1>6, BoundsFacts DEF RollBack, TypeOK
<1>. QED BY <1>1, <1>2, <1>3, <1>4, <1>5, <1>6

LEMMA RelayType ==
  ASSUME TypeOK, NEW e \in Event, NEW c \in Cdr, Relay(e, c)
  PROVE  TypeOK'
<1>1. faults' \in 0 .. MaxFaults /\ outages' \in 0 .. MaxOutages
  BY BoundsFacts DEF Relay
<1>2. unpublished' \in [Event -> [Cdr -> Nat]]
  <2>1. unpublished[e][c] > 0 /\ [unpublished EXCEPT ![e] = Less(@, c)] \in [Event -> [Cdr -> Nat]]
    BY UnpublishedType DEF Relay
  <2>. QED BY <2>1 DEF Relay, TypeOK
<1>3. recorded' \in [Cdr -> Nat] /\ rated' \in [Cdr -> Nat]
  BY CopyFacts DEF Relay, TypeOK
<1>. QED BY <1>1, <1>2, <1>3 DEF Relay, TypeOK, subscription, mediation

LEMMA RatingType ==
  ASSUME TypeOK, NEW w \in Rater,
         \/ \E c \in Cdr : Take(w, c)
         \/ RatingFails(w) \/ RejectRoaming(w) \/ PublishRated(w)
         \/ CommitRated(w) \/ CommitRatedFails(w) \/ RaterCrash(w)
  PROVE  TypeOK'
<1> USE DEF subscription, mediation
<1>0. NoWork \in Work \union {NoWork}
  OBVIOUS
<1>a. ASSUME NEW p \in Work \union {NoWork}, WorkGoes(w, p) PROVE work' \in [Rater -> Work \union {NoWork}]
  BY <1>a DEF WorkGoes, TypeOK
<1>1. ASSUME NEW c \in Cdr, Take(w, c) PROVE TypeOK'
  <2>1. [at |-> "taken", cdr |-> c] \in Work
    BY DEF Work
  <2>2. recorded' \in [Cdr -> Nat]
    BY <1>1, CopyFacts DEF Take, TypeOK
  <2>. QED BY <1>1, <1>a, <2>1, <2>2 DEF Take, TypeOK
<1>2. CASE RatingFails(w)
  <2>1. settled' \subseteq Cdr
    BY <1>2, WorkFacts DEF RatingFails, TypeOK
  <2>2. faults' \in 0 .. MaxFaults /\ outages' \in 0 .. MaxOutages
    BY <1>2, BoundsFacts DEF RatingFails
  <2>. QED BY <1>2, <1>a, <2>1, <2>2 DEF RatingFails, TypeOK
<1>3. CASE RejectRoaming(w)
  <2>1. settled' \subseteq Cdr /\ work[w].cdr \in Cdr
    BY <1>3, WorkFacts DEF RejectRoaming, TypeOK
  <2>2. faults' \in 0 .. MaxFaults /\ outages' \in 0 .. MaxOutages
    BY <1>3, BoundsFacts DEF RejectRoaming, NoFault
  <2>3. unpublished' \in [Event -> [Cdr -> Nat]]
    <3>1. [unpublished EXCEPT !["rejected"] = More(@, work[w].cdr)] \in [Event -> [Cdr -> Nat]]
      BY <2>1, UnpublishedType DEF Event
    <3>. QED BY <1>3, <3>1 DEF RejectRoaming, TypeOK
  <2>. QED BY <1>3, <1>a, <2>1, <2>2, <2>3 DEF RejectRoaming, TypeOK
<1>4. CASE PublishRated(w)
  <2>1. PICK ok \in BOOLEAN :
           /\ Publishes(rated, work[w].cdr, ok)
           /\ WorkGoes(w, [work[w] EXCEPT !.at = IF ok THEN "sent" ELSE "unsent"])
    BY <1>4 DEF PublishRated
  <2>2. work[w] \in Work /\ work[w].cdr \in Cdr
    BY <1>4, WorkFacts DEF PublishRated
  <2>3. rated' \in [Cdr -> Nat] /\ faults' \in 0 .. MaxFaults /\ outages' \in 0 .. MaxOutages
    <3>1. rated \in [Cdr -> Nat] /\ More(rated, work[w].cdr) \in [Cdr -> Nat]
      BY <2>2, CopyFacts DEF TypeOK
    <3>. QED BY <2>1, <2>2, <3>1, PublishFacts
  <2>4. [work[w] EXCEPT !.at = IF ok THEN "sent" ELSE "unsent"] \in Work
    BY <2>2 DEF Work
  <2>. QED BY <1>4, <1>a, <2>1, <2>3, <2>4 DEF PublishRated, TypeOK
<1>5. CASE CommitRated(w)
  <2>1. work[w].cdr \in Cdr
    BY <1>5, WorkFacts DEF CommitRated
  <2>2. unpublished' \in [Event -> [Cdr -> Nat]]
    BY <1>5, <2>1, UnpublishedType DEF CommitRated, Event, TypeOK
  <2>. QED BY <1>5, <1>a, <2>2 DEF CommitRated, TypeOK
<1>6. CASE CommitRatedFails(w)
  BY <1>6, <1>a, BoundsFacts DEF CommitRatedFails, TypeOK
<1>7. CASE RaterCrash(w)
  <2>1. work[w].cdr \in Cdr
    BY <1>7, WorkFacts DEF RaterCrash
  <2>2. recorded' \in [Cdr -> Nat]
    BY <1>7, <2>1, CopyFacts DEF RaterCrash, TypeOK
  <2>. QED BY <1>7, <1>a, <2>2, BoundsFacts DEF RaterCrash, TypeOK
<1>. QED BY <1>1, <1>2, <1>3, <1>4, <1>5, <1>6, <1>7

LEMMA HandleType ==
  ASSUME TypeInv, NEW c \in Cdr, HandleUsageRated(c)
  PROVE  TypeOK'
<1>1. TypeOK /\ Priced(c)
  BY DEF TypeInv, FlowInv, InBilling, HandleUsageRated
<1>2. /\ state' \in [Sub -> {"none", "active", "blocked", "terminated"}]
      /\ balance' \in [Sub -> [Allowance -> [total : Nat, consumed : Nat]]]
      /\ applied' \in [Cdr -> [Allowance -> Nat]]
  <2>1. CASE Applies(c)
    BY <1>1, <2>1, DecrementType DEF HandleUsageRated
  <2>2. CASE ~Applies(c)
    BY <1>1, <2>2 DEF HandleUsageRated, subscription, TypeOK
  <2>. QED BY <2>1, <2>2
<1>3. rated' \in [Cdr -> Nat]
  <2>1. rated \in [Cdr -> Nat] /\ (rated[c] > 0 => Less(rated, c) \in [Cdr -> Nat])
    BY <1>1, CopyFacts DEF TypeOK
  <2>. QED BY <2>1 DEF HandleUsageRated
<1>4. faults' \in 0 .. MaxFaults /\ outages' \in 0 .. MaxOutages
  BY <1>1, BoundsFacts DEF HandleUsageRated
<1>. QED BY <1>1, <1>2, <1>3, <1>4 DEF HandleUsageRated, TypeOK, mediation

(* A record that was admitted keeps its body and its holder. *)
LEMMA AdmittedStays ==
  ASSUME TypeOK, [Next]_vars, NEW d \in Cdr
  PROVE  (Admitted(d) => Admitted(d)') /\ (Priced(d) => Priced(d)')
<1> DEFINE Keeps == kind' = kind /\ (at[d] # "new" => at'[d] # "new" /\ holder'[d] = holder[d])
<1>1. Keeps
  <2> USE DEF TypeOK, MediationOnly, MediationGoes, subscription, mediation
  <2>1. ASSUME NEW c \in Cdr, Refuse(c) \/ Enrich(c) \/ RecordRejection(c) PROVE Keeps
    BY <2>1 DEF Refuse, Enrich, RecordRejection
  <2>2. ASSUME NEW c \in Cdr, InsertAndPublish(c) \/ CommitRecorded(c) \/ RollBack(c) PROVE Keeps
    BY <2>2 DEF InsertAndPublish, CommitRecorded, RollBack
  <2>3. \/ \E s \in Sub : Activate(s) \/ TopUp(s) \/ Terminate(s)
        \/ \E c \in Cdr : HandleUsageRated(c)
        \/ \E e \in Event, c \in Cdr : Relay(e, c)
        \/ \E w \in Rater, c \in Cdr : Take(w, c)
        \/ \E w \in Rater : RatingFails(w) \/ RejectRoaming(w) \/ PublishRated(w)
        \/ \E w \in Rater : CommitRated(w) \/ CommitRatedFails(w) \/ RaterCrash(w)
        \/ UNCHANGED vars
        => UNCHANGED mediation
    BY DEF Activate, TopUp, Terminate, HandleUsageRated, Relay, Take, RatingFails, RejectRoaming,
           PublishRated, CommitRated, CommitRatedFails, RaterCrash, vars
  <2>. QED BY <2>1, <2>2, <2>3, NextCases
<1>. QED BY <1>1 DEF Admitted, Priced, WellFormed, Rateable, Target

(* A record comes to rating and to subscription through mediation and rating. *)
LEMMA FlowGrows ==
  ASSUME TypeInv, TypeOK', [Next]_vars, NEW d \in Cdr
  PROVE  /\ InRating(d)' => InRating(d) \/ Admitted(d)'
         /\ InBilling(d)' => InBilling(d) \/ Priced(d)
<1> DEFINE Goal == /\ InRating(d)' => InRating(d) \/ Admitted(d)'
                   /\ InBilling(d)' => InBilling(d) \/ Priced(d)
<1> USE DEF TypeInv
<1>a. TypeOK
  OBVIOUS
<1>1. ASSUME NEW c \in Cdr, Refuse(c) \/ RecordRejection(c) PROVE Goal
  <2>1. /\ UNCHANGED <<recorded, rated, work>>
        /\ unpublished'["recorded"] = unpublished["recorded"] /\ unpublished'["rated"] = unpublished["rated"]
        /\ at'[d] = at[d] \/ at'[d] \in {"refused", "rejected"}
    BY <1>1 DEF Refuse, RecordRejection, MediationOnly, MediationGoes, TypeOK, Event
  <2>. QED BY <2>1 DEF InRating, InBilling
<1>2. ASSUME NEW c \in Cdr, Enrich(c) PROVE Goal
  <2>1. UNCHANGED <<recorded, rated, work, unpublished, kind>>
    BY <1>2 DEF Enrich, MediationOnly
  <2>2. /\ d # c => at'[d] = at[d]
        /\ at'[c] = "enriched" => holder'[c] \in Sub
        /\ at'[c] \in {"enriched", "rejecting", "failed"} /\ WellFormed(c)
    BY <1>2 DEF Enrich, MediationGoes, Rows, TypeOK
  <2>3. InBilling(d)' => InBilling(d)
    BY <2>1 DEF InBilling
  <2>4. CASE d = c /\ at'[c] = "enriched"
    BY <2>1, <2>2, <2>3, <2>4 DEF Admitted, WellFormed
  <2>5. CASE ~(d = c /\ at'[c] = "enriched")
    BY <2>1, <2>2, <2>3, <2>5 DEF InRating
  <2>. QED BY <2>4, <2>5
<1>3. ASSUME NEW c \in Cdr, InsertAndPublish(c) \/ CommitRecorded(c) \/ RollBack(c) PROVE Goal
  <2>1. UNCHANGED <<rated, work>> /\ unpublished'["rated"] = unpublished["rated"]
    BY <1>3 DEF InsertAndPublish, CommitRecorded, RollBack, TypeOK, Event
  <2>2. InRating(c)
    BY <1>3 DEF InsertAndPublish, CommitRecorded, RollBack, InRating
  <2>3. d # c => /\ at'[d] = at[d] /\ recorded'[d] = recorded[d]
                 /\ unpublished'["recorded"][d] = unpublished["recorded"][d]
    <3>1. recorded' = recorded \/ recorded' = More(recorded, c)
      BY <1>3 DEF InsertAndPublish, CommitRecorded, RollBack, Publishes
    <3>2. d # c => recorded'[d] = recorded[d]
      BY <3>1 DEF More, TypeOK
    <3>3. d # c => unpublished'["recorded"][d] = unpublished["recorded"][d]
      BY <1>3 DEF InsertAndPublish, CommitRecorded, RollBack, More, TypeOK, Event
    <3>. QED BY <1>3, <3>2, <3>3 DEF InsertAndPublish, CommitRecorded, RollBack, MediationGoes, TypeOK
  <2>. QED BY <2>1, <2>2, <2>3 DEF InRating, InBilling
<1>4. ASSUME NEW c \in Cdr, HandleUsageRated(c) PROVE Goal
  <2>1. rated'[d] <= rated[d] /\ rated[d] \in Nat /\ rated'[d] \in Nat
    <3>1. rated' = rated \/ rated' = Less(rated, c)
      BY <1>4 DEF HandleUsageRated
    <3>2. rated \in [Cdr -> Nat] /\ rated[c] > 0
      BY <1>4 DEF HandleUsageRated, TypeOK
    <3>3. Less(rated, c)[c] = rated[c] - 1 /\ (d # c => Less(rated, c)[d] = rated[d])
      BY <3>2, CopyFacts
    <3>. QED BY <3>1, <3>2, <3>3
  <2>. QED BY <1>4, <2>1 DEF HandleUsageRated, mediation, InRating, InBilling
<1>5. ASSUME NEW e \in Event, NEW c \in Cdr, Relay(e, c) PROVE Goal
  <2>1. UNCHANGED <<at, work>>
    BY <1>5 DEF Relay, mediation
  <2>2. CASE c = d
    <3>1. /\ e # "recorded" => recorded'[d] = recorded[d]
          /\ e # "rated" => rated'[d] = rated[d]
      BY <1>5 DEF Relay
    <3>2. \A f \in Event \ {e} : unpublished'[f] = unpublished[f]
      BY <1>5 DEF Relay, TypeOK
    <3>3. unpublished[e][d] > 0
      BY <1>5, <2>2 DEF Relay
    <3>. QED BY <2>1, <3>1, <3>2, <3>3 DEF InRating, InBilling, Event
  <2>3. CASE c # d
    <3>1. recorded'[d] = recorded[d] /\ rated'[d] = rated[d]
      BY <1>5, <2>3 DEF Relay, More, TypeOK
    <3>2. \A f \in Event : unpublished'[f][d] = unpublished[f][d]
      <4>1. Less(unpublished[e], c)[d] = unpublished[e][d]
        BY <2>3 DEF Less, TypeOK
      <4>2. unpublished' = [unpublished EXCEPT ![e] = Less(@, c)] \/ unpublished' = unpublished
        BY <1>5 DEF Relay
      <4>. QED BY <4>1, <4>2 DEF TypeOK
    <3>. QED BY <2>1, <3>1, <3>2 DEF InRating, InBilling, Event
  <2>. QED BY <2>2, <2>3
<1>6. ASSUME NEW w \in Rater, NEW c \in Cdr, Take(w, c) PROVE Goal
  <2>1. UNCHANGED <<at, unpublished, rated>> /\ recorded[c] > 0
        /\ (d # c => recorded'[d] = recorded[d])
    BY <1>6 DEF Take, Less, mediation, TypeOK
  <2>2. /\ work'[w] = [at |-> "taken", cdr |-> c]
        /\ \A v \in Rater \ {w} : work'[v] = work[v]
    BY <1>6, WorkFacts DEF Take
  <2>. QED BY <2>1, <2>2 DEF InRating, InBilling
<1>7. ASSUME NEW w \in Rater, RatingFails(w) \/ RejectRoaming(w) \/ CommitRatedFails(w) PROVE Goal
  <2>1. /\ UNCHANGED <<at, recorded, rated>>
        /\ unpublished'["recorded"] = unpublished["recorded"] /\ unpublished'["rated"] = unpublished["rated"]
    BY <1>7 DEF RatingFails, RejectRoaming, CommitRatedFails, mediation, TypeOK, Event
  <2>2. work'[w] = NoWork /\ \A v \in Rater \ {w} : work'[v] = work[v]
    BY <1>7, WorkFacts DEF RatingFails, RejectRoaming, CommitRatedFails
  <2>. QED BY <2>1, <2>2, WorkFacts DEF InRating, InBilling
<1>8. ASSUME NEW w \in Rater, PublishRated(w) PROVE Goal
  <2> DEFINE c == work[w].cdr
  <2>1. UNCHANGED <<at, recorded, unpublished>> /\ c \in Cdr /\ work[w] # NoWork
    BY <1>8, WorkFacts DEF PublishRated, mediation
  <2>2. work'[w].cdr = c /\ \A v \in Rater \ {w} : work'[v] = work[v]
    <3>1. PICK ok \in BOOLEAN : WorkGoes(w, [work[w] EXCEPT !.at = IF ok THEN "sent" ELSE "unsent"])
      BY <1>8 DEF PublishRated
    <3>2. work[w] \in Work
      BY <2>1, WorkFacts
    <3>. QED BY <3>1, <3>2, WorkFacts DEF Work
  <2>3. Priced(c)
    BY <1>8, <2>1 DEF PublishRated, FlowInv, InRating, Priced
  <2>4. d # c => rated'[d] = rated[d]
    BY <1>8, <2>1 DEF PublishRated, Publishes, More, TypeOK
  <2>. QED BY <2>1, <2>2, <2>3, <2>4 DEF InRating, InBilling
<1>9. ASSUME NEW w \in Rater, CommitRated(w) PROVE Goal
  <2> DEFINE c == work[w].cdr
  <2>1. UNCHANGED <<at, recorded, rated>> /\ c \in Cdr /\ work[w] # NoWork
    BY <1>9, WorkFacts DEF CommitRated, mediation
  <2>2. /\ unpublished'["recorded"] = unpublished["recorded"]
        /\ d # c => unpublished'["rated"][d] = unpublished["rated"][d]
    BY <1>9, <2>1 DEF CommitRated, More, TypeOK, Event
  <2>3. work'[w] = NoWork /\ \A v \in Rater \ {w} : work'[v] = work[v]
    BY <1>9, WorkFacts DEF CommitRated
  <2>4. InBilling(c)
    BY <1>9 DEF CommitRated, InBilling
  <2>. QED BY <2>1, <2>2, <2>3, <2>4, WorkFacts DEF InRating, InBilling
<1>10. ASSUME NEW w \in Rater, RaterCrash(w) PROVE Goal
  <2> DEFINE c == work[w].cdr
  <2>1. UNCHANGED <<at, unpublished, rated>> /\ c \in Cdr /\ work[w] # NoWork
    BY <1>10, WorkFacts DEF RaterCrash, mediation
  <2>2. d # c => recorded'[d] = recorded[d]
    BY <1>10, <2>1 DEF RaterCrash, More, TypeOK
  <2>3. work'[w] = NoWork /\ \A v \in Rater \ {w} : work'[v] = work[v]
    BY <1>10, WorkFacts DEF RaterCrash
  <2>. QED BY <2>1, <2>2, <2>3, WorkFacts DEF InRating, InBilling
<1>11. ASSUME UNCHANGED <<at, recorded, rated, work, unpublished>> PROVE Goal
  BY <1>11 DEF InRating, InBilling
<1>12. (\E s \in Sub : Activate(s) \/ TopUp(s) \/ Terminate(s)) \/ UNCHANGED vars
       => UNCHANGED <<at, recorded, rated, work, unpublished>>
  BY DEF Activate, TopUp, Terminate, vars, mediation
<1>. QED BY <1>1, <1>2, <1>3, <1>4, <1>5, <1>6, <1>7, <1>8, <1>9, <1>10, <1>11, <1>12, NextCases

LEMMA TypeStep == TypeInv /\ [Next]_vars => TypeInv'
<1> SUFFICES ASSUME TypeInv, [Next]_vars PROVE TypeInv'
  OBVIOUS
<1>1. TypeOK'
  <2>1. CASE UNCHANGED vars
    BY <2>1 DEF vars, subscription, mediation, TypeInv, TypeOK
  <2>. QED BY <2>1, NextCases, SubscriptionType, MediationType, HandleType, RelayType, RatingType DEF TypeInv
<1>2. FlowInv'
  BY <1>1, FlowGrows, AdmittedStays DEF TypeInv, FlowInv
<1>. QED BY <1>1, <1>2 DEF TypeInv

LEMMA TypeInvHolds == Spec => []TypeInv
  BY TypeInit, TypeStep, PTL DEF Spec

(* Every reachable state of the pipeline is well typed: no copy, flag or balance is
   counted below zero, and what is decremented has a holder and an allowance. *)
THEOREM TypeCorrect == Spec => []TypeOK
  BY TypeInvHolds, PTL DEF TypeInv

-----------------------------------------------------------------------------
(* Pockets. *)

(* Only handle_usage_rated decrements, the allowance the record names. *)
LEMMA OnlyDecrements ==
  ASSUME TypeInv, [Next]_vars
  PROVE  \/ applied' = applied
         \/ \E c \in Cdr : /\ HandleUsageRated(c) /\ Target(c) \in Allowance
                           /\ applied' = [applied EXCEPT ![c][Target(c)] = @ + 1]
<1>1. ASSUME NEW c \in Cdr, HandleUsageRated(c)
      PROVE  \/ applied' = applied
             \/ Target(c) \in Allowance /\ applied' = [applied EXCEPT ![c][Target(c)] = @ + 1]
  <2>1. Priced(c) /\ TypeOK
    BY <1>1 DEF TypeInv, FlowInv, InBilling, HandleUsageRated
  <2>. QED BY <1>1, <2>1, PricedFacts DEF HandleUsageRated, Decrement, subscription
<1>2. \/ \E s \in Sub : Activate(s) \/ TopUp(s) \/ Terminate(s)
      \/ \E c \in Cdr : Refuse(c) \/ Enrich(c) \/ RecordRejection(c)
      \/ \E c \in Cdr : InsertAndPublish(c) \/ CommitRecorded(c) \/ RollBack(c)
      \/ \E e \in Event, c \in Cdr : Relay(e, c)
      \/ \E w \in Rater, c \in Cdr : Take(w, c)
      \/ \E w \in Rater : RatingFails(w) \/ RejectRoaming(w) \/ PublishRated(w)
      \/ \E w \in Rater : CommitRated(w) \/ CommitRatedFails(w) \/ RaterCrash(w)
      \/ UNCHANGED vars
      => applied' = applied
  BY DEF Activate, TopUp, Terminate, Refuse, Enrich, RecordRejection, InsertAndPublish, CommitRecorded,
         RollBack, Relay, Take, RatingFails, RejectRoaming, PublishRated, CommitRated,
         CommitRatedFails, RaterCrash, MediationOnly, subscription, vars
<1>. QED BY <1>1, <1>2, NextCases

(* Whatever is redelivered, roaming data never eats the home bundle, nor home usage
   the roaming one. *)
THEOREM PocketsStayApart == Spec => []PocketsApart
<1>1. Init => PocketsApart
  BY DEF Init, PocketsApart, Allowance
<1>2. TypeInv /\ PocketsApart /\ [Next]_vars => PocketsApart'
  <2> SUFFICES ASSUME TypeInv, PocketsApart, [Next]_vars PROVE PocketsApart'
    OBVIOUS
  <2>1. kind' = kind
    <3>1. Next => kind' = kind
      BY NextCases DEF Activate, TopUp, Terminate, Refuse, Enrich, RecordRejection, InsertAndPublish,
         CommitRecorded, RollBack, HandleUsageRated, Relay, Take, RatingFails, RejectRoaming,
         PublishRated, CommitRated, CommitRatedFails, RaterCrash, MediationOnly, mediation
    <3>. QED BY <3>1 DEF vars, mediation
  <2>2. CASE applied' = applied
    BY <2>1, <2>2 DEF PocketsApart
  <2>3. ASSUME NEW c \in Cdr, Target(c) \in Allowance,
               applied' = [applied EXCEPT ![c][Target(c)] = @ + 1]
        PROVE  PocketsApart'
    <3>1. \A d \in Cdr, a \in Allowance :
             d # c \/ a # Target(c) => applied'[d][a] = applied[d][a]
      BY <2>3 DEF TypeInv, TypeOK
    <3>2. kind[c].usage \in {"data", "voice", "fax"}
      BY UsageAssumption DEF TypeInv, TypeOK, Body
    <3>3. (kind[c].roaming => Target(c) # "data") /\ (~kind[c].roaming => Target(c) # "data_roaming")
      BY <3>2 DEF Target
    <3>. QED BY <2>1, <3>1, <3>3 DEF PocketsApart, Allowance
  <2>. QED BY <2>2, <2>3, OnlyDecrements
<1>. QED BY <1>1, <1>2, TypeInvHolds, PTL DEF Spec

-----------------------------------------------------------------------------
(* Duplicates. *)

(* Work that owes subscription a copy: one still to publish, or whose publication was
   refused and waits for the flag to be written. *)
Carries(p, c) == p.at \in {"taken", "unsent"} /\ p.cdr = c
Carried(c) == {w \in Rater : Carries(work[w], c)}

One(b) == IF b THEN 1 ELSE 0

(* The decrements a record has had and those that are on their way. *)
Due(c) == Decrements(c) + rated[c] + unpublished["rated"][c] + Cardinality(Carried(c))
            + recorded[c] + unpublished["recorded"][c] + One(at[c] \in {"new", "enriched", "unsent"})

CountInv == \A c \in Cdr : Due(c) <= 1 + (outages + faults)

LEMMA DueFacts ==
  ASSUME TypeOK, NEW c \in Cdr
  PROVE  /\ Decrements(c) \in Nat /\ rated[c] \in Nat /\ recorded[c] \in Nat
         /\ unpublished["rated"][c] \in Nat /\ unpublished["recorded"][c] \in Nat
         /\ IsFiniteSet(Carried(c)) /\ Cardinality(Carried(c)) \in Nat
         /\ outages \in Nat /\ faults \in Nat
<1>1. applied[c]["data"] \in Nat /\ applied[c]["voice"] \in Nat /\ applied[c]["data_roaming"] \in Nat
  BY DEF TypeOK, Allowance
<1>2. IsFiniteSet(Carried(c)) /\ Cardinality(Carried(c)) \in Nat
  BY UsageAssumption, FS_Subset, FS_CardinalityType DEF Carried
<1>3. unpublished["rated"][c] \in Nat /\ unpublished["recorded"][c] \in Nat
  BY DEF TypeOK, Event
<1>. QED BY <1>1, <1>2, <1>3 DEF Decrements, TypeOK

(* A rating process takes up or lays down a record. *)
LEMMA CarriedMoves ==
  ASSUME TypeOK, NEW w \in Rater, NEW p, WorkGoes(w, p), NEW d \in Cdr
  PROVE  Cardinality(Carried(d)') = Cardinality(Carried(d)) - One(Carries(work[w], d)) + One(Carries(p, d))
<1> DEFINE S == Carried(d) \ {w}
<1>1. IsFiniteSet(Carried(d)) /\ Cardinality(Carried(d)) \in Nat
  BY DueFacts
<1>2. work'[w] = p /\ \A v \in Rater \ {w} : work'[v] = work[v]
  BY WorkFacts
<1>3. w \in Carried(d) <=> Carries(work[w], d)
  BY DEF Carried
<1>4. IsFiniteSet(S) /\ Cardinality(S) = Cardinality(Carried(d)) - One(Carries(work[w], d))
  BY <1>1, <1>3, FS_RemoveElement DEF One
<1>5. Carried(d)' = IF Carries(p, d) THEN S \union {w} ELSE S
  BY <1>2 DEF Carried, Carries
<1>6. Cardinality(Carried(d)') = Cardinality(S) + One(Carries(p, d))
  <2>1. w \notin S
    OBVIOUS
  <2>2. IsFiniteSet(S) /\ Cardinality(S) \in Nat
    BY <1>4, FS_CardinalityType
  <2>3. Cardinality(S \union {w}) = Cardinality(S) + 1
    BY <2>1, <2>2, FS_AddElement
  <2>. QED BY <1>5, <2>2, <2>3 DEF One
<1>. QED BY <1>4, <1>6

(* A step adds to what a record is due no more than it adds failures. *)
Paid(d) == Due(d)' <= Due(d) + ((outages' + faults') - (outages + faults))

DueOK ==
  /\ outages \in Nat /\ faults \in Nat
  /\ \A d \in Cdr :
       /\ Decrements(d) \in Nat /\ rated[d] \in Nat /\ recorded[d] \in Nat
       /\ unpublished["rated"][d] \in Nat /\ unpublished["recorded"][d] \in Nat
       /\ Cardinality(Carried(d)) \in Nat

LEMMA DueType == TypeOK => DueOK
  BY DueFacts DEF DueOK, TypeOK

LEMMA DueTypes ==
  ASSUME TypeOK, TypeOK'
  PROVE  DueOK /\ DueOK'
<1>1. TypeOK' => DueOK'
  BY DueType, PTL
<1>. QED BY <1>1, DueType

LEMMA PaidKeeps ==
  ASSUME TypeOK, TypeOK', CountInv, \A d \in Cdr : Paid(d)
  PROVE  CountInv'
<1> SUFFICES ASSUME NEW d \in Cdr PROVE Due(d)' <= 1 + (outages' + faults')
  BY DEF CountInv
<1>1. Due(d) \in Int /\ Due(d)' \in Int /\ {outages, faults, outages', faults'} \subseteq Nat
  BY DueTypes DEF DueOK, Due, One
<1>. QED BY <1>1 DEF CountInv, Paid

LEMMA SumsAreNat == \A m, n \in Nat : m + n \in Nat
  OBVIOUS

(* A record that is due no more, or one more in a step that fails. *)
LEMMA PaidBy ==
  ASSUME DueOK, DueOK', NEW d \in Cdr, Due(d) \in Int, Due(d)' \in Int,
         \/ Due(d)' <= Due(d) /\ outages' + faults' >= outages + faults
         \/ Due(d)' <= Due(d) + 1 /\ outages' + faults' >= outages + faults + 1
  PROVE  Paid(d)
<1> DEFINE before == outages + faults
           after == outages' + faults'
<1>1. before \in Nat /\ after \in Nat
  <2>1. outages \in Nat /\ faults \in Nat /\ outages' \in Nat /\ faults' \in Nat
    BY DEF DueOK
  <2>. QED BY <2>1, SumsAreNat
<1>2. /\ Paid(d) <=> Due(d)' <= Due(d) + (after - before)
      /\ \/ Due(d)' <= Due(d) /\ after >= before
         \/ Due(d)' <= Due(d) + 1 /\ after >= before + 1
  BY DEF Paid
<1> HIDE DEF before, after
<1>. QED BY <1>1, <1>2

(* A step that leaves a record's copies, rows and work alone. *)
LEMMA PaidQuiet ==
  ASSUME TypeOK, TypeOK', outages' + faults' >= outages + faults, NEW d \in Cdr,
         applied'[d] = applied[d], rated'[d] = rated[d], recorded'[d] = recorded[d],
         unpublished'["rated"][d] = unpublished["rated"][d],
         unpublished'["recorded"][d] = unpublished["recorded"][d],
         Carried(d)' = Carried(d),
         One(at'[d] \in {"new", "enriched", "unsent"}) <= One(at[d] \in {"new", "enriched", "unsent"})
  PROVE  Paid(d)
<1>1. Decrements(d)' = Decrements(d)
  BY DEF Decrements
<1>. QED BY <1>1, DueTypes DEF Paid, Due, DueOK, One

(* Same work, same holders of it. *)
LEMMA CarriedSame ==
  ASSUME work' = work, NEW d
  PROVE  Carried(d)' = Carried(d)
  BY DEF Carried, Carries

LEMMA MediationPaid ==
  ASSUME TypeOK, TypeOK', NEW c \in Cdr, NEW d \in Cdr,
         \/ Refuse(c) \/ Enrich(c) \/ RecordRejection(c)
         \/ InsertAndPublish(c) \/ CommitRecorded(c) \/ RollBack(c)
  PROVE  Paid(d)
<1> USE DEF MediationOnly, MediationGoes, subscription
<1>0. /\ UNCHANGED <<applied, rated, work>> /\ Carried(d)' = Carried(d)
      /\ Decrements(d)' = Decrements(d) /\ unpublished'["rated"] = unpublished["rated"]
  <2>1. UNCHANGED <<applied, rated, work>>
    BY DEF Refuse, Enrich, RecordRejection, InsertAndPublish, CommitRecorded, RollBack
  <2>2. unpublished'["rated"] = unpublished["rated"]
    BY DEF Refuse, Enrich, RecordRejection, InsertAndPublish, CommitRecorded, RollBack, TypeOK, Event
  <2>. QED BY <2>1, <2>2, CarriedSame DEF Decrements
<1>1. CASE Refuse(c) \/ Enrich(c) \/ RecordRejection(c)
  <2>1. recorded' = recorded /\ unpublished'["recorded"] = unpublished["recorded"]
    BY <1>1 DEF Refuse, Enrich, RecordRejection, TypeOK, Event
  <2>2. outages' + faults' >= outages + faults
    <3>1. (outages' = outages /\ faults' = faults) \/ Fault \/ Outage
      BY <1>1 DEF Refuse, Enrich, RecordRejection, NoFault
    <3>. QED BY <3>1, BoundsFacts, DueTypes DEF DueOK
  <2>3. One(at'[d] \in {"new", "enriched", "unsent"}) <= One(at[d] \in {"new", "enriched", "unsent"})
    <3>1. at'[d] = at[d] \/ at[d] = "new" \/ at'[d] \in {"refused", "rejected"}
      BY <1>1 DEF Refuse, Enrich, RecordRejection, TypeOK
    <3>. QED BY <3>1 DEF One
  <2>. QED BY <1>0, <2>1, <2>2, <2>3, PaidQuiet
<1>2. CASE InsertAndPublish(c)
  <2>1. PICK ok \in BOOLEAN : Publishes(recorded, c, ok) /\ MediationGoes(c, IF ok THEN "sent" ELSE "unsent")
    BY <1>2 DEF InsertAndPublish
  <2>2. unpublished' = unpublished /\ at[c] = "enriched"
    BY <1>2 DEF InsertAndPublish
  <2>3. /\ outages' + faults' >= outages + faults
        /\ ~ok \/ recorded' = recorded => outages' + faults' >= outages + faults + 1
        /\ recorded' = recorded \/ recorded' = More(recorded, c)
    BY <2>1, PublishFacts, BoundsFacts DEF Publishes
  <2>4. CASE c # d
    <3>1. recorded'[d] = recorded[d] /\ at'[d] = at[d]
      BY <2>1, <2>3, <2>4 DEF More, TypeOK
    <3>. QED BY <1>0, <2>2, <2>3, <3>1, PaidQuiet DEF One
  <2>5. CASE c = d
    <3>1. at'[d] = (IF ok THEN "sent" ELSE "unsent")
      BY <2>1, <2>5 DEF TypeOK
    <3>2. recorded' = recorded \/ recorded'[d] = recorded[d] + 1
      <4>1. recorded \in [Cdr -> Nat] /\ More(recorded, c)[c] = recorded[c] + 1
        BY CopyFacts DEF TypeOK
      <4>. QED BY <2>3, <2>5, <4>1
    <3>. QED BY <1>0, <2>2, <2>3, <2>5, <3>1, <3>2, DueTypes DEF Paid, Due, DueOK, One
  <2>. QED BY <2>4, <2>5
<1>3. CASE CommitRecorded(c)
  <2>1. UNCHANGED <<recorded, outages, faults>> /\ at'[c] = "recorded" /\ at[c] \in {"sent", "unsent"}
    BY <1>3 DEF CommitRecorded, TypeOK
  <2>2. unpublished'["recorded"] = IF at[c] = "unsent" THEN More(unpublished["recorded"], c)
                                   ELSE unpublished["recorded"]
    BY <1>3 DEF CommitRecorded, TypeOK, Event
  <2>3. unpublished["recorded"] \in [Cdr -> Nat]
    BY DEF TypeOK, Event
  <2>4. CASE c # d
    <3>1. unpublished'["recorded"][d] = unpublished["recorded"][d] /\ at'[d] = at[d]
      <4>1. More(unpublished["recorded"], c)[d] = unpublished["recorded"][d]
        BY <2>3, <2>4, CopyFacts
      <4>2. at'[d] = at[d]
        BY <1>3, <2>4 DEF CommitRecorded, TypeOK
      <4>. QED BY <2>2, <4>1, <4>2
    <3>2. outages' + faults' >= outages + faults
      BY <2>1, DueTypes DEF DueOK
    <3>. QED BY <1>0, <2>1, <3>1, <3>2, PaidQuiet DEF One
  <2>5. CASE c = d
    <3>1. unpublished'["recorded"][d] = unpublished["recorded"][d] + One(at[d] = "unsent")
      BY <2>2, <2>3, <2>5, CopyFacts DEF One
    <3>. QED BY <1>0, <2>1, <2>5, <3>1, DueTypes DEF Paid, Due, DueOK, One
  <2>. QED BY <2>4, <2>5
<1>4. CASE RollBack(c)
  <2>1. UNCHANGED <<recorded, unpublished>> /\ outages' + faults' >= outages + faults
    BY <1>4, BoundsFacts DEF RollBack
  <2>2. at'[d] = at[d] \/ at'[d] = "failed"
    BY <1>4 DEF RollBack, TypeOK
  <2>. QED BY <1>0, <2>1, <2>2, PaidQuiet DEF One
<1>. QED BY <1>1, <1>2, <1>3, <1>4

LEMMA RelayPaid ==
  ASSUME TypeOK, TypeOK', NEW e \in Event, NEW c \in Cdr, NEW d \in Cdr, Relay(e, c)
  PROVE  Paid(d)
<1>0. UNCHANGED <<applied, at, work>> /\ Carried(d)' = Carried(d) /\ Decrements(d)' = Decrements(d)
  BY CarriedSame DEF Relay, subscription, mediation, Decrements
<1>1. /\ \A f \in Event : unpublished[f] \in [Cdr -> Nat]
      /\ unpublished' = [unpublished EXCEPT ![e] = Less(@, c)] \/ unpublished' = unpublished
      /\ unpublished' = unpublished => outages' + faults' = outages + faults + 1
      /\ outages' + faults' >= outages + faults
      /\ unpublished[e][c] > 0
  <2>1. \A f \in Event : unpublished[f] \in [Cdr -> Nat]
    BY DEF TypeOK
  <2>2. unpublished[e][c] > 0 /\ Less(unpublished[e], c)[c] = unpublished[e][c] - 1
    BY <2>1, CopyFacts DEF Relay
  <2>3. unpublished' = [unpublished EXCEPT ![e] = Less(@, c)] => unpublished' # unpublished
    BY <2>1, <2>2 DEF TypeOK
  <2>. QED BY <2>1, <2>2, <2>3, BoundsFacts DEF Relay
<1>c. /\ More(recorded, c)[c] = recorded[c] + 1 /\ More(rated, c)[c] = rated[c] + 1
      /\ c # d => More(recorded, c)[d] = recorded[d] /\ More(rated, c)[d] = rated[d]
  <2>1. recorded \in [Cdr -> Nat] /\ rated \in [Cdr -> Nat]
    BY DEF TypeOK
  <2>. QED BY <2>1, CopyFacts
<1>2. CASE c # d
  <2>1. recorded'[d] = recorded[d] /\ rated'[d] = rated[d]
    BY <1>2, <1>c DEF Relay
  <2>2. \A f \in Event : unpublished'[f][d] = unpublished[f][d]
    <3>1. Less(unpublished[e], c)[d] = unpublished[e][d]
      BY <1>1, <1>2, CopyFacts
    <3>. QED BY <1>1, <3>1 DEF TypeOK
  <2>. QED BY <1>0, <1>1, <2>1, <2>2, PaidQuiet DEF Event, One
<1>3. CASE c = d
  <2>1. /\ recorded'[d] = recorded[d] + One(e = "recorded")
        /\ rated'[d] = rated[d] + One(e = "rated")
    <3>1. recorded[d] \in Nat /\ rated[d] \in Nat
      BY DueTypes DEF DueOK
    <3>. QED BY <1>3, <1>c, <3>1 DEF Relay, One
  <2>2. Less(unpublished[e], d)[d] = unpublished[e][d] - 1
    BY <1>1, <1>3, CopyFacts
  <2>3. CASE unpublished' = unpublished
    <3>1. e # "rated"
      BY <1>1, <1>3, <2>2, <2>3 DEF Relay, TypeOK, NoFault
    <3>. QED BY <1>0, <1>1, <2>1, <2>3, DueTypes DEF Paid, Due, DueOK, One
  <2>4. CASE unpublished' = [unpublished EXCEPT ![e] = Less(@, c)]
    <3>1. \A f \in Event : unpublished'[f][d] = unpublished[f][d] - One(e = f)
      BY <1>1, <1>3, <2>2, <2>4 DEF TypeOK, One
    <3>. QED BY <1>0, <1>1, <2>1, <3>1, DueTypes DEF Paid, Due, DueOK, One, Event
  <2>. QED BY <1>1, <2>3, <2>4
<1>. QED BY <1>2, <1>3

LEMMA RatingPaid ==
  ASSUME TypeOK, TypeOK', NEW w \in Rater, NEW d \in Cdr,
         \/ \E c \in Cdr : Take(w, c)
         \/ RatingFails(w) \/ RejectRoaming(w) \/ PublishRated(w)
         \/ CommitRated(w) \/ CommitRatedFails(w) \/ RaterCrash(w)
  PROVE  Paid(d)
<1> USE DEF subscription, mediation
<1>0. UNCHANGED <<applied, at>> /\ Decrements(d)' = Decrements(d)
  BY DEF Take, RatingFails, RejectRoaming, PublishRated, CommitRated, CommitRatedFails,
         RaterCrash, Decrements
<1>b. DueOK /\ DueOK'
  BY DueTypes
<1>d. /\ Decrements(d) \in Nat /\ rated[d] \in Nat /\ recorded[d] \in Nat
      /\ unpublished["rated"][d] \in Nat /\ unpublished["recorded"][d] \in Nat
      /\ Cardinality(Carried(d)) \in Nat /\ Cardinality(Carried(d)') \in Nat
      /\ outages \in Nat /\ faults \in Nat /\ outages' \in Nat /\ faults' \in Nat
  BY <1>b DEF DueOK
<1>n. ~Carries(NoWork, d)
  BY DEF Carries, NoWork
<1>1. ASSUME NEW c \in Cdr, Take(w, c) PROVE Paid(d)
  <2>1. /\ ~Carries(work[w], d)
        /\ Carries([at |-> "taken", cdr |-> c], d) <=> c = d
    BY <1>1, <1>n DEF Take, Carries
  <2>2. Cardinality(Carried(d)') = Cardinality(Carried(d)) + One(c = d)
    BY <1>1, <1>b, <2>1, CarriedMoves DEF Take, One, DueOK
  <2>3. recorded'[d] = recorded[d] - One(c = d)
    <3>1. recorded \in [Cdr -> Nat] /\ recorded[c] > 0 /\ recorded' = Less(recorded, c)
      BY <1>1 DEF Take, TypeOK
    <3>2. Less(recorded, c)[c] = recorded[c] - 1 /\ (c # d => Less(recorded, c)[d] = recorded[d])
      BY <3>1, CopyFacts
    <3>. QED BY <3>1, <3>2 DEF One
  <2>4. UNCHANGED <<rated, unpublished, outages, faults>>
    BY <1>1 DEF Take
  <2>. QED BY <1>0, <1>b, <2>2, <2>3, <2>4 DEF Paid, Due, DueOK, One
<1>2. CASE RatingFails(w) \/ RejectRoaming(w) \/ CommitRatedFails(w)
  <2>1. /\ UNCHANGED <<rated, recorded>>
        /\ unpublished'["recorded"] = unpublished["recorded"] /\ unpublished'["rated"] = unpublished["rated"]
    BY <1>2 DEF RatingFails, RejectRoaming, CommitRatedFails, TypeOK, Event
  <2>2. outages' + faults' >= outages + faults
    <3>1. (outages' = outages /\ faults' = faults) \/ Fault \/ Outage
      BY <1>2 DEF RatingFails, RejectRoaming, CommitRatedFails, NoFault
    <3>2. CASE outages' = outages /\ faults' = faults
      <4>1. outages \in Nat /\ faults \in Nat
        BY <1>d
      <4>2. \A n \in Nat : n >= n
        OBVIOUS
      <4>. QED BY <3>2, <4>1, <4>2
    <3>3. CASE Fault \/ Outage
      BY <3>3, BoundsFacts
    <3>. QED BY <3>1, <3>2, <3>3
  <2>3. Cardinality(Carried(d)') <= Cardinality(Carried(d))
    BY <1>2, <1>b, <1>n, CarriedMoves DEF RatingFails, RejectRoaming, CommitRatedFails, One, DueOK
  <2>4. /\ Decrements(d)' = Decrements(d) /\ rated'[d] = rated[d] /\ recorded'[d] = recorded[d]
        /\ unpublished'["rated"][d] = unpublished["rated"][d]
        /\ unpublished'["recorded"][d] = unpublished["recorded"][d] /\ at' = at
    BY <1>0, <2>1
  <2>5. One(at[d] \in {"new", "enriched", "unsent"}) \in Nat
    BY DEF One
  <2>6. Due(d) \in Int /\ Due(d)' = Due(d) + (Cardinality(Carried(d)') - Cardinality(Carried(d)))
    BY <1>d, <2>4, <2>5 DEF Due
  <2>7. Due(d)' <= Due(d)
    <3> HIDE DEF Due
    <3>. QED BY <1>d, <2>3, <2>6
  <2>8. (outages' + faults') - (outages + faults) \in Nat
    <3>1. outages \in Nat /\ faults \in Nat /\ outages' \in Nat /\ faults' \in Nat
      BY <1>d
    <3>2. \A m, n, m1, n1 \in Nat : m1 + n1 >= m + n => (m1 + n1) - (m + n) \in Nat
      OBVIOUS
    <3>. QED BY <2>2, <3>1, <3>2
  <2>9. Due(d)' \in Int
    <3> HIDE DEF Due
    <3>. QED BY <1>d, <2>6
  <2>. QED BY <2>6, <2>7, <2>8, <2>9 DEF Paid
<1>3. CASE PublishRated(w)
  <2> DEFINE c == work[w].cdr
  <2>1. PICK ok \in BOOLEAN :
           /\ Publishes(rated, c, ok)
           /\ WorkGoes(w, [work[w] EXCEPT !.at = IF ok THEN "sent" ELSE "unsent"])
    BY <1>3 DEF PublishRated
  <2>2. c \in Cdr /\ work[w] \in Work /\ work[w].at = "taken" /\ UNCHANGED <<recorded, unpublished>>
    BY <1>3, WorkFacts DEF PublishRated
  <2>3. /\ outages' + faults' >= outages + faults
        /\ ~ok \/ rated' = rated => outages' + faults' >= outages + faults + 1
        /\ rated' = rated \/ rated' = More(rated, c)
    BY <2>1, <2>2, PublishFacts, BoundsFacts DEF Publishes
  <2>4. /\ Carries(work[w], d) <=> c = d
        /\ Carries([work[w] EXCEPT !.at = IF ok THEN "sent" ELSE "unsent"], d) <=> c = d /\ ~ok
    BY <2>2 DEF Carries, Work
  <2>5. Cardinality(Carried(d)') = Cardinality(Carried(d)) - One(c = d /\ ok)
    BY <2>1, <2>4, <1>b, CarriedMoves DEF One, DueOK
  <2>6. More(rated, c)[d] = rated[d] + One(c = d)
    <3>1. rated \in [Cdr -> Nat] /\ rated[d] \in Nat
      BY DEF TypeOK
    <3>. QED BY <2>2, <3>1, CopyFacts DEF One
  <2> DEFINE rest == Decrements(d) + unpublished["rated"][d] + recorded[d]
                       + unpublished["recorded"][d] + One(at[d] \in {"new", "enriched", "unsent"})
  <2>7. rest \in Int
    BY <1>d DEF One
  <2>8. /\ Due(d) = rated[d] + Cardinality(Carried(d)) + rest
        /\ Due(d)' = rated'[d] + Cardinality(Carried(d)') + rest
    <3>1. /\ Decrements(d)' = Decrements(d) /\ at' = at /\ recorded' = recorded
          /\ unpublished' = unpublished
      BY <1>0, <2>2
    <3>2. rated'[d] \in Nat
      BY <1>b DEF DueOK
    <3>. QED BY <1>d, <3>1, <3>2 DEF Due, One
  <2>9. /\ One(c = d /\ ok) = IF ok THEN One(c = d) ELSE 0
        /\ One(c = d) \in {0, 1}
    BY <2>1 DEF One
  <2>10. (rated' = rated \/ ~ok) => outages' + faults' >= outages + faults + 1
    BY <2>3
  <2>11. rated'[d] = rated[d] \/ rated'[d] = rated[d] + One(c = d)
    BY <2>3, <2>6
  <2>12. rated' # rated => rated'[d] = rated[d] + One(c = d)
    BY <2>3, <2>6
  <2> HIDE DEF rest, c
  <2>13. CASE ok /\ rated' # rated
    <3>1. One(c = d) \in Int
      BY <2>9
    <3>2. Cardinality(Carried(d)') = Cardinality(Carried(d)) - One(c = d)
      BY <2>5, <2>9, <2>13
    <3>3. rated'[d] = rated[d] + One(c = d)
      BY <2>12, <2>13
    <3>4. Due(d)' = Due(d) /\ Due(d) \in Int
      BY <1>d, <2>7, <2>8, <3>1, <3>2, <3>3
    <3>5. Due(d)' <= Due(d) /\ Due(d)' \in Int
      BY <3>4
    <3>. QED BY <1>b, <2>3, <3>4, <3>5, PaidBy
  <2>14. CASE ~(ok /\ rated' # rated)
    <3>1. outages' + faults' >= outages + faults + 1
      BY <2>10, <2>14
    <3>2. Cardinality(Carried(d)') <= Cardinality(Carried(d)) /\ rated'[d] <= rated[d] + 1
      BY <1>d, <2>1, <2>5, <2>9, <2>11
    <3>3. rated'[d] \in Nat
      BY <1>b DEF DueOK
    <3>4. Due(d) \in Int /\ Due(d)' \in Int /\ Due(d)' <= Due(d) + 1
      BY <1>d, <2>7, <2>8, <3>2, <3>3
    <3>. QED BY <1>b, <3>1, <3>4, PaidBy
  <2>. QED BY <2>13, <2>14
<1>4. CASE CommitRated(w)
  <2> DEFINE c == work[w].cdr
  <2>1. /\ c \in Cdr /\ work[w].at \in {"sent", "unsent"}
        /\ UNCHANGED <<recorded, rated, outages, faults>>
    BY <1>4, WorkFacts DEF CommitRated
  <2>2. Cardinality(Carried(d)') = Cardinality(Carried(d)) - One(c = d /\ work[w].at = "unsent")
    <3>1. Carries(work[w], d) <=> c = d /\ work[w].at = "unsent"
      BY <2>1 DEF Carries
    <3>. QED BY <1>4, <1>n, <1>b, <3>1, CarriedMoves DEF CommitRated, One, DueOK
  <2>3. /\ unpublished'["recorded"] = unpublished["recorded"]
        /\ unpublished'["rated"][d] = unpublished["rated"][d] + One(c = d /\ work[w].at = "unsent")
    <3>1. unpublished["rated"] \in [Cdr -> Nat] /\ unpublished["rated"][d] \in Nat
      BY DEF TypeOK, Event
    <3>2. More(unpublished["rated"], c)[d] = unpublished["rated"][d] + One(c = d)
      BY <2>1, <3>1, CopyFacts DEF One
    <3>3. /\ unpublished'["recorded"] = unpublished["recorded"]
          /\ unpublished'["rated"] = IF work[w].at = "unsent" THEN More(unpublished["rated"], c)
                                     ELSE unpublished["rated"]
      BY <1>4 DEF CommitRated, TypeOK, Event
    <3>. QED BY <3>1, <3>2, <3>3 DEF One
  <2>. QED BY <1>0, <1>d, <2>1, <2>2, <2>3 DEF Paid, Due, One
<1>5. CASE RaterCrash(w)
  <2> DEFINE c == work[w].cdr
  <2>1. c \in Cdr /\ UNCHANGED <<rated, unpublished>> /\ recorded' = More(recorded, c)
    BY <1>5, WorkFacts DEF RaterCrash
  <2>2. outages' + faults' = outages + faults + 1
    BY <1>5, BoundsFacts DEF RaterCrash
  <2>3. Cardinality(Carried(d)') <= Cardinality(Carried(d))
    BY <1>5, <1>b, <1>n, CarriedMoves DEF RaterCrash, One, DueOK
  <2>4. recorded'[d] = recorded[d] + One(c = d)
    <3>1. recorded \in [Cdr -> Nat] /\ recorded[d] \in Nat
      BY DEF TypeOK
    <3>. QED BY <2>1, <3>1, CopyFacts DEF One
  <2>. QED BY <1>0, <1>d, <2>1, <2>2, <2>3, <2>4 DEF Paid, Due, One
<1>. QED BY <1>1, <1>2, <1>3, <1>4, <1>5

LEMMA HandlePaid ==
  ASSUME TypeInv, TypeOK', NEW c \in Cdr, NEW d \in Cdr, HandleUsageRated(c)
  PROVE  Paid(d)
<1>0. TypeOK /\ DueOK /\ DueOK'
  BY DueTypes DEF TypeInv
<1>1. UNCHANGED <<at, recorded, unpublished, work>> /\ Carried(d)' = Carried(d)
  BY CarriedSame DEF HandleUsageRated, mediation
<1>2. Decrements(d)' <= Decrements(d) + One(c = d)
  <2>1. CASE applied' = applied
    BY <1>0, <2>1 DEF Decrements, One, DueOK
  <2>2. ASSUME Target(c) \in Allowance, applied' = [applied EXCEPT ![c][Target(c)] = @ + 1]
        PROVE  Decrements(d)' <= Decrements(d) + One(c = d)
    <3>1. \A a \in Allowance : /\ applied[d][a] \in Nat
                               /\ applied'[d][a] = applied[d][a] + One(c = d /\ a = Target(c))
      BY <1>0, <2>2 DEF TypeOK, One
    <3>. QED BY <2>2, <3>1 DEF Decrements, Allowance, One
  <2>3. Applies(c) => Target(c) \in Allowance /\ applied' = [applied EXCEPT ![c][Target(c)] = @ + 1]
    <3>1. Priced(c)
      BY DEF TypeInv, FlowInv, InBilling, HandleUsageRated
    <3>. QED BY <1>0, <3>1, PricedFacts DEF HandleUsageRated, Decrement
  <2>. QED BY <2>1, <2>2, <2>3 DEF HandleUsageRated, subscription
<1>3. \/ rated'[d] = rated[d] - One(c = d) /\ outages' + faults' = outages + faults
      \/ rated'[d] = rated[d] /\ outages' + faults' = outages + faults + 1
  <2>1. rated \in [Cdr -> Nat] /\ rated[c] > 0 /\ rated[d] \in Nat
    BY <1>0 DEF HandleUsageRated, TypeOK
  <2>2. Less(rated, c)[d] = rated[d] - One(c = d)
    BY <2>1, CopyFacts DEF One
  <2>. QED BY <1>0, <2>1, <2>2, BoundsFacts DEF HandleUsageRated
<1> DEFINE rest == unpublished["rated"][d] + Cardinality(Carried(d)) + recorded[d]
                     + unpublished["recorded"][d] + One(at[d] \in {"new", "enriched", "unsent"})
<1>4. rest \in Int /\ One(c = d) \in Int
  BY <1>0 DEF DueOK, One
<1>5. /\ Due(d) = Decrements(d) + rated[d] + rest
      /\ Due(d)' = Decrements(d)' + rated'[d] + rest
  BY <1>0, <1>1, <1>4 DEF Due, DueOK, One
<1>6. Decrements(d) \in Nat /\ Decrements(d)' \in Nat /\ rated[d] \in Nat /\ rated'[d] \in Nat
  BY <1>0 DEF DueOK
<1>7. One(c = d) \in {0, 1}
  BY DEF One
<1>f. outages + faults \in Nat
  BY <1>0 DEF DueOK
<1> HIDE DEF rest
<1>i. Due(d) \in Int /\ Due(d)' \in Int
  BY <1>4, <1>5, <1>6
<1>8. CASE rated'[d] = rated[d] - One(c = d) /\ outages' + faults' = outages + faults
  <2>1. Due(d)' <= Due(d)
    BY <1>2, <1>4, <1>5, <1>6, <1>8
  <2>2. outages' + faults' >= outages + faults
    BY <1>f, <1>8
  <2>. QED BY <1>0, <1>i, <2>1, <2>2, PaidBy
<1>9. CASE rated'[d] = rated[d] /\ outages' + faults' = outages + faults + 1
  <2>1. Due(d)' <= Due(d) + 1
    BY <1>2, <1>4, <1>5, <1>6, <1>7, <1>9
  <2>2. outages' + faults' >= outages + faults + 1
    BY <1>f, <1>9
  <2>. QED BY <1>0, <1>i, <2>1, <2>2, PaidBy
<1>. QED BY <1>3, <1>8, <1>9

LEMMA CountStep == TypeInv /\ CountInv /\ [Next]_vars => CountInv'
<1> SUFFICES ASSUME TypeInv, CountInv, [Next]_vars PROVE CountInv'
  OBVIOUS
<1>0. TypeOK /\ TypeOK'
  BY TypeStep DEF TypeInv
<1>1. ASSUME NEW d \in Cdr PROVE Paid(d)
  <2>1. (\E s \in Sub : Activate(s) \/ TopUp(s) \/ Terminate(s)) \/ UNCHANGED vars
        => UNCHANGED <<applied, at, recorded, rated, work, unpublished, outages, faults>>
    BY DEF Activate, TopUp, Terminate, vars, mediation, subscription
  <2>2. ASSUME UNCHANGED <<applied, at, recorded, rated, work, unpublished, outages, faults>> PROVE Paid(d)
    <3>1. outages' + faults' >= outages + faults
      BY <1>0, <2>2, DueTypes DEF DueOK
    <3>. QED BY <1>0, <2>2, <3>1, CarriedSame, PaidQuiet DEF One
  <2>. QED BY <1>0, <2>1, <2>2, NextCases, MediationPaid, RelayPaid, RatingPaid, HandlePaid
<1>. QED BY <1>0, <1>1, PaidKeeps

(* A record is decremented once more for each failure at most: a copy is made from
   another, from a row whose flag says it was not published, or by a failure. *)
THEOREM DuplicatesArePaid == Spec => []DuplicatesNeedFaults
<1>1. Init => CountInv
  <2> SUFFICES ASSUME Init, NEW c \in Cdr PROVE Due(c) <= 1 + (outages + faults)
    BY DEF CountInv
  <2>1. Carried(c) = {}
    BY DEF Init, Carried, Carries, NoWork
  <2>2. Decrements(c) = 0 /\ Cardinality(Carried(c)) = 0
    BY <2>1, FS_EmptySet DEF Init, Decrements, Allowance
  <2>. QED BY <2>2 DEF Init, Due, One, Event
<1>2. TypeInv /\ CountInv => DuplicatesNeedFaults
  <2> SUFFICES ASSUME TypeInv, CountInv, NEW c \in Cdr PROVE Decrements(c) - 1 <= outages + faults
    BY DEF DuplicatesNeedFaults
  <2>1. DueOK /\ Due(c) <= 1 + (outages + faults)
    BY DueType DEF TypeInv, CountInv
  <2>. QED BY <2>1 DEF Due, DueOK, One
<1>. QED BY <1>1, <1>2, CountStep, TypeInvHolds, PTL DEF Spec
================================================================================
