------------------------ MODULE OrderFulfilmentProofs ------------------------
(***************************************************************************)
(* The order plane's guarantees for any number of orders, requests, tasks, *)
(* numbers, eSIMs, service orders, retries and faults.                     *)
(***************************************************************************)
EXTENDS OrderFulfilment, TLAPS

(* A job with an event has an order. *)
Requested == \A j \in Job : so[j] # "none" => request[j] \in Order

(* A service exists only once the decomposition has committed. *)
Decomposed == \A j \in Job : so[j] \in {"none", "requested", "parked"} => cfs[j] = "none"

(* While COM holds an order's row lock the event it is handling stays unsettled. *)
InHand == \A j \in created : verdict[<<j, "completed">>] = "staged"

VerdictInv == TypeOK /\ Requested /\ Decomposed /\ OneVerdict /\ InHand

(* What a request carries. *)
LEMMA CallFacts ==
  ASSUME TypeOK, NEW c \in Caller, call[c] # NoCall
  PROVE  /\ call[c].op \in {"submit", "ask", "cancel"} => call[c].on \in Order
         /\ call[c].op = "resolve" => /\ call[c].on \in Job \X Task
                                      /\ call[c].on[1] \in Job /\ call[c].on[2] \in Task
  BY DEF TypeOK, Call

LEMMA ResultFacts ==
  ASSUME TypeOK, NEW m \in results
  PROVE  /\ m \in Result /\ m.job \in Job /\ m.task \in Task
         /\ m.kind \in {"completed", "failed", "stuck"} /\ m.known \in BOOLEAN
  BY DEF TypeOK, Result

LEMMA VerdictFacts ==
  /\ \A j \in Job : <<j, "completed">> \in Verdict /\ <<j, "failed">> \in Verdict
  /\ \A v \in Verdict : v[1] \in Job
  BY DEF Verdict

-----------------------------------------------------------------------------
(* Type correctness. *)

LEMMA TypeInit == Init => TypeOK
  BY FulfilmentAssumption, VerdictFacts DEF Init, TypeOK, OrderState, Job

LEMMA ComType ==
  ASSUME TypeOK, NEW c \in Caller, ComCall(c)
  PROVE  TypeOK'
<1> USE DEF somVars, simVars, subVars
<1>0. ASSUME NEW o \in Order, NEW op \in {"submit", "ask", "cancel"}, Calls(c, op, o)
      PROVE  call' \in [Caller -> Call \union {NoCall}]
  <2>1. [op |-> op, on |-> o] \in Call
    BY DEF Call
  <2>. QED BY <1>0, <2>1 DEF Calls, TypeOK
<1>1. ASSUME NEW o \in Order, BeginSubmit(c, o) PROVE TypeOK'
  BY <1>0, <1>1 DEF BeginSubmit, TypeOK
<1>2. ASSUME NEW o \in Order, BeginCancel(c, o) PROVE TypeOK'
  BY <1>0, <1>2 DEF BeginCancel, TypeOK
<1>3. ASSUME NEW j \in Job, CommitSubmit(c, j) PROVE TypeOK'
  BY <1>3, CallFacts DEF CommitSubmit, Hangs, TypeOK, OrderState
<1>4. CASE AskSom(c)
  BY <1>0, <1>4, CallFacts DEF AskSom, TypeOK
<1>5. CASE CommitCancel(c)
  BY <1>5, CallFacts DEF CommitCancel, Cancelled, Hangs, TypeOK, OrderState
<1>6. CASE Abandon(c)
  BY <1>6 DEF Abandon, Hangs, TypeOK
<1>. QED BY <1>1, <1>2, <1>3, <1>4, <1>5, <1>6 DEF ComCall

LEMMA ReportType ==
  ASSUME TypeOK, NEW k \in Outcomes, NEW j \in Job, NEW t \in Task, NEW known \in BOOLEAN,
         Report(k, j, t, known)
  PROVE  results' \subseteq Result /\ done' \subseteq Job \X Task
  BY FulfilmentAssumption DEF Report, TypeOK, Result

LEMMA ResolveType ==
  ASSUME TypeOK, NEW c \in Caller, ResolveCall(c)
  PROVE  TypeOK'
<1> USE DEF somVars, simVars, subVars
<1>1. ASSUME NEW j \in Job, NEW t \in Task, BeginResolve(c, j, t) PROVE TypeOK'
  BY <1>1 DEF BeginResolve, Calls, TypeOK, Call
<1>2. ASSUME NEW k \in Outcomes, Resolve(c, k) PROVE TypeOK'
  <2>1. results' \subseteq Result /\ done' \subseteq Job \X Task
    BY <1>2, CallFacts, ReportType DEF Resolve
  <2>. QED BY <1>2, <2>1 DEF Resolve, Hangs, TypeOK
<1>. QED BY <1>1, <1>2 DEF ResolveCall

LEMMA DecomposeType ==
  ASSUME TypeOK, NEW j \in Job, DecomposeStep(j)
  PROVE  TypeOK'
<1> USE FulfilmentAssumption DEF comVars, simVars, subVars
<1>1. ASSUME NEW x \in Item, Reserve(j, x) PROVE TypeOK'
  BY <1>1 DEF Reserve, TypeOK
<1>2. CASE DecomposeFails(j)
  <2>1. stock' \in [Item -> {"available", "reserved", "assigned"}] /\ faults' \in Nat
    BY <1>2 DEF DecomposeFails, Release, Fault, TypeOK
  <2>2. tries' \in [Job -> 0 .. MaxRetries]
    BY <1>2 DEF DecomposeFails, Retry, TypeOK
  <2>. QED BY <1>2, <2>1, <2>2 DEF DecomposeFails, TypeOK
<1>3. CASE Decompose(j)
  BY <1>3 DEF Decompose, TypeOK
<1>. QED BY <1>1, <1>2, <1>3 DEF DecomposeStep, ReserveNumber, ReserveSim

LEMMA SimulatorType ==
  ASSUME TypeOK, TaskStep \/ TaskFault
  PROVE  TypeOK'
<1> USE DEF comVars, somVars, subVars
<1>1. ASSUME NEW j \in Job, NEW t \in Task, NEW k \in Outcomes, RunTask(j, t, k) PROVE TypeOK'
  <2>1. results' \subseteq Result /\ done' \subseteq Job \X Task
    BY <1>1, ReportType DEF RunTask
  <2>2. todo' \subseteq Job \X Task /\ stuckRows' \subseteq Job \X Task /\ faults' \in Nat
    BY <1>1 DEF RunTask, Fault, TypeOK
  <2>. QED BY <1>1, <2>1, <2>2 DEF RunTask, TypeOK
<1>2. ASSUME NEW j \in Job, NEW t \in Task, DropTask(j, t) PROVE TypeOK'
  BY <1>2 DEF DropTask, Fault, TypeOK
<1>. QED BY <1>1, <1>2 DEF TaskStep, TaskFault

LEMMA ResultType ==
  ASSUME TypeOK, ResultStep \/ ResultFault
  PROVE  TypeOK'
<1> USE DEF comVars, somVars, simVars, subVars
<1>1. SUFFICES ASSUME NEW m \in results,
                      \/ CountTask(m) \/ ActivateService(m) \/ FailService(m)
                      \/ RecordStuck(m) \/ ParkResult(m) \/ FailServiceRollsBack(m)
               PROVE  TypeOK'
  BY DEF ResultStep, ResultFault
<1>2. ASSUME NEW s \in {"completed", "failed", "stuck"}, Mark(m, s)
      PROVE  pending' \in [Job -> [Task -> {"none", "pending", "completed", "failed", "stuck"}]]
  BY <1>2, ResultFacts DEF Mark, TypeOK
<1>3. Consume(m) => results' \subseteq Result /\ faults' \in Nat
  BY DEF Consume, Fault, TypeOK
<1>4. ASSUME NEW k \in {"completed", "failed"}, SettleServiceOrder(m, k), StageVerdict(m, k)
      PROVE  /\ so' \in [Job -> {"none", "requested", "in_progress", "completed", "failed", "parked"}]
             /\ verdict' \in [Verdict -> {"none", "staged", "heard", "parked"}]
  BY <1>4, ResultFacts, VerdictFacts DEF SettleServiceOrder, StageVerdict, TypeOK
<1>5. ASSUME NEW xs, Release(xs)
      PROVE  stock' \in [Item -> {"available", "reserved", "assigned"}]
  BY <1>5 DEF Release, TypeOK
<1>6. CASE CountTask(m)
  BY <1>6, <1>2, <1>3 DEF CountTask, TypeOK
<1>7. CASE ActivateService(m)
  BY <1>7, <1>2, <1>3, <1>4, ResultFacts DEF ActivateService, TypeOK
<1>8. CASE FailService(m)
  <2>1. stock' \in [Item -> {"available", "reserved", "assigned"}]
    BY <1>8, <1>5 DEF FailService, TypeOK
  <2>2. results' \subseteq Result /\ faults' \in Nat
    BY <1>8, <1>3 DEF FailService, Fault, TypeOK
  <2>. QED BY <1>8, <1>2, <1>4, <2>1, <2>2, ResultFacts DEF FailService, TypeOK
<1>9. CASE RecordStuck(m)
  BY <1>9, <1>2, <1>3 DEF RecordStuck, TypeOK
<1>10. CASE ParkResult(m)
  BY <1>10 DEF ParkResult, TypeOK
<1>11. CASE FailServiceRollsBack(m)
  BY <1>11, <1>5 DEF FailServiceRollsBack, Fault, TypeOK
<1>. QED BY <1>1, <1>6, <1>7, <1>8, <1>9, <1>10, <1>11

LEMMA VerdictType ==
  ASSUME TypeOK, NEW j \in Job, VerdictStep(j),
         verdict[<<j, "completed">>] # "none" => request[j] \in Order
  PROVE  TypeOK'
<1> USE DEF comVars, somVars, simVars, subVars
<1>1. RetryOrPark(j) => /\ tries' \in [Job -> 0 .. MaxRetries]
                        /\ verdict' \in [Verdict -> {"none", "staged", "heard", "parked"}]
  <2>1. Retry(j) => tries' \in [Job -> 0 .. MaxRetries]
    <3>1. tries[j] \in 0 .. MaxRetries
      BY DEF TypeOK
    <3>2. tries[j] < MaxRetries => tries[j] + 1 \in 0 .. MaxRetries
      BY <3>1, FulfilmentAssumption
    <3>. QED BY <3>2 DEF Retry, TypeOK
  <2>. QED BY <2>1, VerdictFacts DEF RetryOrPark, TypeOK
<1>2. ASSUME NEW o \in Order, Charged(o) PROVE charges' \in [Order -> Nat]
  BY <1>2 DEF Charged, TypeOK
<1>3. ASSUME NEW xs, Release(xs) \/ Assign(xs)
      PROVE  stock' \in [Item -> {"available", "reserved", "assigned"}]
  BY <1>3 DEF Release, Assign, TypeOK
<1>4. Activating(j) => request[j] \in Order
  BY DEF Activating
<1>5. ASSUME NEW v \in Verdict, Heard(v)
      PROVE  verdict' \in [Verdict -> {"none", "staged", "heard", "parked"}]
  BY <1>5 DEF Heard, TypeOK
<1>6. CASE CreateHit(j)
  BY <1>6 DEF CreateHit, TypeOK
<1>7. CASE Create(j)
  BY <1>7, <1>2, <1>3, <1>4 DEF Create, TypeOK
<1>8. CASE CreateRefused(j)
  BY <1>8, <1>1 DEF CreateRefused, TypeOK
<1>9. CASE CreateDeclined(j)
  BY <1>9, <1>1, <1>3, <1>4 DEF CreateDeclined, TypeOK
<1>10. CASE CreateFailsCharged(j)
  <2>1. faults' \in Nat
    BY <1>10 DEF CreateFailsCharged, Fault, TypeOK
  <2>. QED BY <1>10, <1>1, <1>2, <1>3, <1>4, <2>1 DEF CreateFailsCharged, TypeOK
<1>11. CASE CommitCompleted(j)
  BY <1>11, <1>5, VerdictFacts DEF CommitCompleted, Completed, TypeOK, OrderState
<1>12. CASE RollbackCompleted(j)
  BY <1>12, <1>1 DEF RollbackCompleted, Fault, TypeOK
<1>13. CASE FailOrder(j)
  BY <1>13, <1>5, VerdictFacts DEF FailOrder, TypeOK, OrderState
<1>14. ASSUME NEW v \in Verdict, SkipVerdict(v) PROVE TypeOK'
  BY <1>14, <1>5 DEF SkipVerdict, TypeOK
<1>. QED BY <1>6, <1>7, <1>8, <1>9, <1>10, <1>11, <1>12, <1>13, <1>14, VerdictFacts DEF VerdictStep

-----------------------------------------------------------------------------
(* One verdict. *)

(* A step that touches no job's event, service or verdict. *)
LEMMA QuietVerdict ==
  ASSUME VerdictInv, UNCHANGED <<request, so, cfs, verdict, created>>
  PROVE  (Requested /\ Decomposed /\ OneVerdict /\ InHand)'
  BY DEF VerdictInv, Requested, Decomposed, OneVerdict, InHand

LEMMA CallerQuiet ==
  /\ \A o \in Order : CreateOrder(o) => UNCHANGED <<request, so, cfs, verdict, created>>
  /\ \A c \in Caller : ComCall(c) => \/ UNCHANGED <<request, so, cfs, verdict, created>>
                                     \/ \E j \in Job : CommitSubmit(c, j)
  /\ \A c \in Caller : ResolveCall(c) => UNCHANGED <<request, so, cfs, verdict, created>>
  /\ TaskStep \/ TaskFault => UNCHANGED <<request, so, cfs, verdict, created>>
  BY DEF CreateOrder, ComCall, BeginSubmit, BeginCancel, AskSom, CommitCancel, Cancelled, Abandon,
         ResolveCall, BeginResolve, Resolve, TaskStep, TaskFault, RunTask, DropTask,
         comVars, somVars, simVars, subVars

LEMMA SubmitVerdict ==
  ASSUME VerdictInv, NEW c \in Caller, NEW j \in Job, CommitSubmit(c, j)
  PROVE  (Requested /\ Decomposed /\ OneVerdict /\ InHand)'
<1>1. call[c].on \in Order
  BY CallFacts DEF CommitSubmit, VerdictInv
<1>2. /\ UNCHANGED <<cfs, verdict, created>>
      /\ so[j] = "none" /\ so'[j] = "requested" /\ request'[j] \in Order
      /\ \A i \in Job \ {j} : so'[i] = so[i] /\ request'[i] = request[i]
  BY <1>1 DEF CommitSubmit, FirstUnused, VerdictInv, TypeOK
<1>. QED BY <1>2 DEF VerdictInv, Requested, Decomposed, OneVerdict, InHand

LEMMA DecomposeVerdict ==
  ASSUME VerdictInv, NEW j \in Job, DecomposeStep(j)
  PROVE  (Requested /\ Decomposed /\ OneVerdict /\ InHand)'
<1>1. CASE UNCHANGED <<so, cfs>>
  BY <1>1, QuietVerdict DEF DecomposeStep, ReserveNumber, ReserveSim, Reserve, DecomposeFails,
                            Decompose
<1>2. CASE DecomposeFails(j) /\ so' = [so EXCEPT ![j] = "parked"]
  BY <1>2 DEF DecomposeFails, VerdictInv, Requested, Decomposed, OneVerdict, InHand, TypeOK
<1>3. CASE Decompose(j)
  <2>1. /\ UNCHANGED <<request, verdict, created>>
        /\ cfs[j] = "none" /\ cfs'[j] = "reserved" /\ so'[j] = "in_progress" /\ so[j] # "none"
        /\ \A i \in Job \ {j} : so'[i] = so[i] /\ cfs'[i] = cfs[i]
    BY <1>3 DEF Decompose, VerdictInv, Decomposed, TypeOK
  <2>. QED BY <2>1 DEF VerdictInv, Requested, Decomposed, OneVerdict, InHand
<1>. QED BY <1>1, <1>2, <1>3 DEF DecomposeStep, ReserveNumber, ReserveSim, Reserve, DecomposeFails

(* The service leaves reserved for good, and says so once. *)
LEMMA EndsOnce ==
  ASSUME VerdictInv, NEW m \in results, NEW k \in {"completed", "failed"},
         cfs[m.job] = "reserved",
         cfs' = [cfs EXCEPT ![m.job] = IF k = "completed" THEN "activated" ELSE "failed"],
         SettleServiceOrder(m, k), StageVerdict(m, k), UNCHANGED <<request, created>>
  PROVE  (Requested /\ Decomposed /\ OneVerdict /\ InHand)'
<1>1. m.job \in Job /\ so[m.job] \notin {"none", "requested", "parked"}
  BY ResultFacts DEF VerdictInv, Decomposed
<1>2. verdict[<<m.job, "completed">>] = "none" /\ verdict[<<m.job, "failed">>] = "none"
  BY <1>1 DEF VerdictInv, OneVerdict
<1>3. /\ verdict'[<<m.job, k>>] = "staged"
      /\ \A l \in {"completed", "failed"} \ {k} : verdict'[<<m.job, l>>] = "none"
      /\ \A i \in Job \ {m.job}, l \in {"completed", "failed"} :
            verdict'[<<i, l>>] = verdict[<<i, l>>]
  <2>1. \A i \in Job, l \in {"completed", "failed"} :
          <<i, l>> \in Verdict /\ (<<i, l>> = <<m.job, k>> <=> i = m.job /\ l = k)
    BY DEF Verdict
  <2>2. \A i \in Job, l \in {"completed", "failed"} :
          verdict'[<<i, l>>] = IF i = m.job /\ l = k THEN "staged" ELSE verdict[<<i, l>>]
    BY <1>1, <2>1 DEF StageVerdict, VerdictInv, TypeOK
  <2>. QED BY <1>1, <1>2, <2>2
<1>4. /\ so'[m.job] = so[m.job] \/ so'[m.job] = k
      /\ \A i \in Job \ {m.job} : so'[i] = so[i] /\ cfs'[i] = cfs[i]
      /\ cfs'[m.job] = IF k = "completed" THEN "activated" ELSE "failed"
  BY <1>1 DEF SettleServiceOrder, VerdictInv, TypeOK
<1>5. Requested' /\ Decomposed'
  BY <1>1, <1>4 DEF VerdictInv, Requested, Decomposed
<1>6. OneVerdict'
  <2>1. /\ verdict'[<<m.job, "completed">>] # "none" <=> cfs'[m.job] = "activated"
        /\ verdict'[<<m.job, "failed">>] # "none" <=> cfs'[m.job] = "failed"
    <3>1. CASE k = "completed"
      BY <1>3, <1>4, <3>1
    <3>2. CASE k = "failed"
      BY <1>3, <1>4, <3>2
    <3>. QED BY <3>1, <3>2
  <2>2. ASSUME NEW i \in Job \ {m.job}
        PROVE  /\ verdict'[<<i, "completed">>] # "none" <=> cfs'[i] = "activated"
               /\ verdict'[<<i, "failed">>] # "none" <=> cfs'[i] = "failed"
    BY <1>3, <1>4 DEF VerdictInv, OneVerdict
  <2>. QED BY <1>1, <2>1, <2>2 DEF OneVerdict
<1>7. InHand'
  <2>1. \A i \in created : i \in Job /\ i # m.job
    BY <1>2 DEF VerdictInv, InHand, TypeOK
  <2>. QED BY <1>3, <2>1 DEF VerdictInv, InHand
<1>. QED BY <1>5, <1>6, <1>7

LEMMA ResultVerdict ==
  ASSUME VerdictInv, ResultStep \/ ResultFault
  PROVE  (Requested /\ Decomposed /\ OneVerdict /\ InHand)'
<1>1. SUFFICES ASSUME NEW m \in results,
                      \/ CountTask(m) \/ ActivateService(m) \/ FailService(m)
                      \/ RecordStuck(m) \/ ParkResult(m) \/ FailServiceRollsBack(m)
               PROVE  (Requested /\ Decomposed /\ OneVerdict /\ InHand)'
  BY DEF ResultStep, ResultFault
<1>2. CASE ActivateService(m)
  <2>1. cfs' = [cfs EXCEPT ![m.job] = IF "completed" = "completed" THEN "activated" ELSE "failed"]
    BY <1>2 DEF ActivateService
  <2>. QED BY <1>2, <2>1, EndsOnce DEF ActivateService
<1>3. CASE FailService(m)
  <2>1. cfs' = [cfs EXCEPT ![m.job] = IF "failed" = "completed" THEN "activated" ELSE "failed"]
    BY <1>3 DEF FailService
  <2>. QED BY <1>3, <2>1, EndsOnce DEF FailService
<1>4. CASE CountTask(m) \/ RecordStuck(m) \/ ParkResult(m) \/ FailServiceRollsBack(m)
  BY <1>4, QuietVerdict DEF CountTask, RecordStuck, ParkResult, FailServiceRollsBack,
                            comVars, somVars, simVars, subVars
<1>. QED BY <1>1, <1>2, <1>3, <1>4

(* COM's consumers settle staged verdicts and nothing else. *)
LEMMA ConsumerVerdict ==
  ASSUME VerdictInv, NEW j \in Job, VerdictStep(j)
  PROVE  (Requested /\ Decomposed /\ OneVerdict /\ InHand)'
<1>1. UNCHANGED <<request, so, cfs>>
  BY DEF VerdictStep, CreateHit, Create, CreateRefused, CreateDeclined, CreateFailsCharged,
         CommitCompleted, Completed, RollbackCompleted, FailOrder, SkipVerdict, somVars
<1>2. ASSUME NEW v \in Verdict, NEW s \in {"heard", "parked"}, verdict[v] = "staged",
             verdict' = [verdict EXCEPT ![v] = s] \/ UNCHANGED verdict,
             \A i \in created' : i \in created /\ v # <<i, "completed">>
      PROVE  (Requested /\ Decomposed /\ OneVerdict /\ InHand)'
  <2>1. \A w \in Verdict : verdict'[w] = "none" <=> verdict[w] = "none"
    BY <1>2 DEF VerdictInv, TypeOK
  <2>2. OneVerdict'
    BY <1>1, <2>1, VerdictFacts DEF VerdictInv, OneVerdict
  <2>3. ASSUME NEW i \in created' PROVE verdict'[<<i, "completed">>] = "staged"
    <3>1. i \in created /\ <<i, "completed">> \in Verdict /\ v # <<i, "completed">>
      BY <1>2, <2>3, VerdictFacts DEF VerdictInv, TypeOK
    <3>2. verdict[<<i, "completed">>] = "staged"
      BY <3>1 DEF VerdictInv, InHand
    <3>. QED BY <1>2, <3>1, <3>2 DEF VerdictInv, TypeOK
  <2>. QED BY <1>1, <2>2, <2>3 DEF VerdictInv, Requested, Decomposed, InHand
<1>3. <<j, "completed">> \in Verdict /\ <<j, "failed">> \in Verdict
  BY VerdictFacts
<1>4. RetryOrPark(j) => \/ UNCHANGED verdict
                        \/ verdict' = [verdict EXCEPT ![<<j, "completed">>] = "parked"]
  BY DEF RetryOrPark
<1>5. Activating(j) => j \notin created /\ verdict[<<j, "completed">>] = "staged"
  BY DEF Activating, Locked
<1>6. \A i \in Job : <<i, "completed">> = <<j, "completed">> => i = j
  OBVIOUS
<1>7. created \subseteq Job
  BY DEF VerdictInv, TypeOK
<1>8. CASE CreateHit(j) \/ Create(j)
  <2>1. UNCHANGED verdict /\ created' = created \union {j} /\ Activating(j)
    BY <1>8 DEF CreateHit, Create
  <2>. QED BY <1>1, <1>5, <2>1 DEF VerdictInv, Requested, Decomposed, OneVerdict, InHand
<1>9. CASE CreateRefused(j) \/ CreateDeclined(j) \/ CreateFailsCharged(j)
  <2>1. RetryOrPark(j) /\ Activating(j) /\ UNCHANGED created
    BY <1>9 DEF CreateRefused, CreateDeclined, CreateFailsCharged
  <2>. QED BY <1>2, <1>3, <1>4, <1>5, <1>6, <1>7, <2>1
<1>10. CASE CommitCompleted(j)
  <2>1. Heard(<<j, "completed">>) /\ created' = created \ {j} /\ j \in created
    BY <1>10 DEF CommitCompleted, Completed
  <2>2. verdict[<<j, "completed">>] = "staged"
    BY <2>1 DEF VerdictInv, InHand
  <2>. QED BY <1>2, <1>3, <1>6, <1>7, <2>1, <2>2 DEF Heard
<1>11. CASE RollbackCompleted(j)
  <2>1. RetryOrPark(j) /\ created' = created \ {j} /\ j \in created
    BY <1>11 DEF RollbackCompleted
  <2>2. verdict[<<j, "completed">>] = "staged"
    BY <2>1 DEF VerdictInv, InHand
  <2>. QED BY <1>2, <1>3, <1>4, <1>6, <1>7, <2>1, <2>2
<1>12. CASE FailOrder(j)
  <2>1. /\ Heard(<<j, "failed">>) /\ UNCHANGED created /\ verdict[<<j, "failed">>] = "staged"
        /\ \A i \in created : <<j, "failed">> # <<i, "completed">>
    BY <1>12 DEF FailOrder
  <2>. QED BY <1>2, <1>3, <2>1 DEF Heard
<1>13. ASSUME NEW v \in {<<j, "completed">>, <<j, "failed">>}, SkipVerdict(v)
       PROVE  (Requested /\ Decomposed /\ OneVerdict /\ InHand)'
  <2>1. /\ Heard(v) /\ UNCHANGED created /\ verdict[v] = "staged"
        /\ j \notin created
    BY <1>13 DEF SkipVerdict, Locked
  <2>2. \A i \in created : v # <<i, "completed">>
    BY <2>1
  <2>. QED BY <1>2, <1>3, <2>1, <2>2 DEF Heard
<1>. QED BY <1>8, <1>9, <1>10, <1>11, <1>12, <1>13 DEF VerdictStep

LEMMA VerdictInvStep == VerdictInv /\ [Next]_vars => VerdictInv'
<1> SUFFICES ASSUME VerdictInv, [Next]_vars PROVE VerdictInv'
  OBVIOUS
<1> USE DEF VerdictInv
<1>1. ASSUME NEW o \in Order, CreateOrder(o) PROVE VerdictInv'
  <2>1. TypeOK'
    BY <1>1 DEF CreateOrder, TypeOK, OrderState, somVars, simVars, subVars
  <2>. QED BY <1>1, <2>1, CallerQuiet, QuietVerdict
<1>2. ASSUME NEW c \in Caller, ComCall(c) PROVE VerdictInv'
  BY <1>2, ComType, CallerQuiet, QuietVerdict, SubmitVerdict
<1>3. ASSUME NEW c \in Caller, ResolveCall(c) PROVE VerdictInv'
  BY <1>3, ResolveType, CallerQuiet, QuietVerdict
<1>4. ASSUME NEW j \in Job, DecomposeStep(j) PROVE VerdictInv'
  BY <1>4, DecomposeType, DecomposeVerdict
<1>5. ASSUME NEW j \in Job, VerdictStep(j) PROVE VerdictInv'
  <2>1. verdict[<<j, "completed">>] # "none" => request[j] \in Order
    BY DEF OneVerdict, Decomposed, Requested
  <2>. QED BY <1>5, <2>1, VerdictType, ConsumerVerdict
<1>6. CASE TaskStep \/ TaskFault
  BY <1>6, SimulatorType, CallerQuiet, QuietVerdict
<1>7. CASE ResultStep \/ ResultFault
  BY <1>7, ResultType, ResultVerdict
<1>8. CASE UNCHANGED vars
  <2>1. TypeOK'
    BY <1>8 DEF vars, comVars, somVars, simVars, subVars, TypeOK
  <2>. QED BY <1>8, <2>1, QuietVerdict DEF vars, somVars
<1>. QED BY <1>1, <1>2, <1>3, <1>4, <1>5, <1>6, <1>7, <1>8 DEF Next

LEMMA VerdictInvHolds == Spec => []VerdictInv
<1>1. Init => VerdictInv
  BY TypeInit, VerdictFacts DEF Init, VerdictInv, Requested, Decomposed, OneVerdict, InHand
<1>. QED BY <1>1, VerdictInvStep, PTL DEF Spec

(* Every reachable state is well typed. *)
THEOREM TypeCorrect == Spec => []TypeOK
<1>1. VerdictInv => TypeOK
  BY DEF VerdictInv
<1>. QED BY <1>1, VerdictInvHolds, PTL

(* COM hears at most one verdict on a service order, the one its service ended
   with, however often a task result is redelivered and in whatever order. *)
THEOREM VerdictIsSingle == Spec => []OneVerdict
<1>1. VerdictInv => OneVerdict
  BY DEF VerdictInv
<1>. QED BY <1>1, VerdictInvHolds, PTL

-----------------------------------------------------------------------------
(* Activation only by the network. *)

(* A completion that is on its way or was counted did happen. *)
Reported ==
    /\ \A m \in results : m.kind = "completed" => <<m.job, m.task>> \in done
    /\ \A j \in Job, t \in Task : pending[j][t] = "completed" => <<j, t>> \in done
    /\ ActivatedByNetwork

LEMMA ReportIsTrue ==
  ASSUME Reported, NEW k, NEW j \in Job, NEW t \in Task, NEW known, Report(k, j, t, known),
         UNCHANGED <<pending, cfs>>
  PROVE  Reported'
<1>1. done \subseteq done'
  BY DEF Report
<1>2. ASSUME NEW m \in results', m.kind = "completed" PROVE <<m.job, m.task>> \in done'
  <2>1. CASE m \in results
    BY <1>1, <1>2, <2>1 DEF Reported
  <2>2. CASE m = [kind |-> k, job |-> j, task |-> t, known |-> known]
    BY <1>2, <2>2 DEF Report
  <2>. QED BY <1>2, <2>1, <2>2 DEF Report
<1>. QED BY <1>1, <1>2 DEF Reported, ActivatedByNetwork

LEMMA ReportedStep == VerdictInv /\ Reported /\ [Next]_vars => Reported'
<1> SUFFICES ASSUME VerdictInv, Reported, [Next]_vars PROVE Reported'
  OBVIOUS
<1>1. ASSUME results' \subseteq results, UNCHANGED <<done, pending, cfs>> PROVE Reported'
  BY <1>1 DEF Reported, ActivatedByNetwork
<1>2. ASSUME NEW j \in Job, DecomposeStep(j) PROVE Reported'
  <2>1. CASE UNCHANGED <<pending, cfs>>
    BY <1>1, <1>2, <2>1 DEF DecomposeStep, ReserveNumber, ReserveSim, Reserve, DecomposeFails,
                            Decompose, simVars
  <2>2. CASE Decompose(j)
    BY <2>2 DEF Decompose, simVars, Reported, ActivatedByNetwork, VerdictInv, TypeOK
  <2>. QED BY <1>2, <2>1, <2>2 DEF DecomposeStep, ReserveNumber, ReserveSim, Reserve, DecomposeFails
<1>3. ASSUME NEW c \in Caller, ResolveCall(c) PROVE Reported'
  <2>1. CASE \E j \in Job, t \in Task : BeginResolve(c, j, t)
    BY <1>1, <2>1 DEF BeginResolve, somVars, simVars
  <2>2. ASSUME NEW k \in Outcomes, Resolve(c, k) PROVE Reported'
    BY <2>2, CallFacts, ReportIsTrue DEF Resolve, VerdictInv, somVars
  <2>. QED BY <1>3, <2>1, <2>2 DEF ResolveCall
<1>4. CASE TaskStep
  BY <1>4, ReportIsTrue DEF TaskStep, RunTask, somVars
<1>5. CASE TaskFault
  BY <1>1, <1>5 DEF TaskFault, DropTask, somVars
<1>6. CASE ResultStep \/ ResultFault
  <2>1. SUFFICES ASSUME NEW m \in results,
                        \/ CountTask(m) \/ ActivateService(m) \/ FailService(m)
                        \/ RecordStuck(m) \/ ParkResult(m) \/ FailServiceRollsBack(m)
                 PROVE  Reported'
    BY <1>6 DEF ResultStep, ResultFault
  <2>2. Consume(m) => results' \subseteq results
    BY DEF Consume
  <2>3. ASSUME NEW s \in {"completed", "failed", "stuck"}, Mark(m, s)
        PROVE  \A j \in Job, t \in Task :
                  pending'[j][t] = IF j = m.job /\ t = m.task THEN s ELSE pending[j][t]
    BY <2>3, ResultFacts DEF Mark, VerdictInv, TypeOK
  <2>4. CASE CountTask(m)
    BY <2>2, <2>3, <2>4 DEF CountTask, simVars, Reported, ActivatedByNetwork
  <2>5. CASE ActivateService(m)
    <3>1. \A j \in Job : cfs'[j] = IF j = m.job THEN "activated" ELSE cfs[j]
      BY <2>5, ResultFacts DEF ActivateService, VerdictInv, TypeOK
    <3>2. \A t \in Task : <<m.job, t>> \in done
      BY <2>5, ResultFacts DEF ActivateService, AllCompleted, Reported, VerdictInv
    <3>. QED BY <2>2, <2>3, <2>5, <3>1, <3>2 DEF ActivateService, simVars, Reported, ActivatedByNetwork
  <2>6. CASE FailService(m)
    <3>1. \A j \in Job : cfs'[j] = IF j = m.job THEN "failed" ELSE cfs[j]
      BY <2>6, ResultFacts DEF FailService, VerdictInv, TypeOK
    <3>2. results' \subseteq results
      BY <2>2, <2>6 DEF FailService
    <3>. QED BY <2>3, <2>6, <3>1, <3>2 DEF FailService, simVars, Reported, ActivatedByNetwork
  <2>7. CASE RecordStuck(m)
    BY <2>2, <2>3, <2>7 DEF RecordStuck, simVars, Reported, ActivatedByNetwork
  <2>8. CASE ParkResult(m) \/ FailServiceRollsBack(m)
    BY <1>1, <2>8 DEF ParkResult, FailServiceRollsBack, somVars, simVars
  <2>. QED BY <2>1, <2>4, <2>5, <2>6, <2>7, <2>8
<1>7. UNCHANGED vars \/ (\E o \in Order : CreateOrder(o)) \/ (\E c \in Caller : ComCall(c))
        \/ (\E j \in Job : VerdictStep(j))
      => UNCHANGED <<results, done, pending, cfs>>
  BY DEF vars, CreateOrder, ComCall, BeginSubmit, BeginCancel, AskSom, CommitCancel, Cancelled,
         CommitSubmit, Abandon, VerdictStep, CreateHit, Create, CreateRefused, CreateDeclined,
         CreateFailsCharged, CommitCompleted, Completed, RollbackCompleted, FailOrder, SkipVerdict,
         somVars, simVars
<1>. QED BY <1>1, <1>2, <1>3, <1>4, <1>5, <1>6, <1>7 DEF Next

(* A service is activated only when the network completed every one of its
   tasks: results that are lost, stuck or failed hold it back. *)
THEOREM NetworkActivates == Spec => []ActivatedByNetwork
<1>1. Init => Reported
  BY DEF Init, Reported, ActivatedByNetwork
<1>2. Reported => ActivatedByNetwork
  BY DEF Reported
<1>. QED BY <1>1, <1>2, ReportedStep, VerdictInvHolds, PTL DEF Spec

-----------------------------------------------------------------------------
(* A completed order is served, and is not charged again. *)

Served(o) == \E k \in subs : request[k] = o /\ cfs[k] = "activated"

(* A subscription belongs to an activated service of its job's order, and COM
   completes an order only after subscription.create has answered. *)
ServedInv ==
    /\ \A k \in subs : cfs[k] = "activated"
    /\ \A j \in created : Served(request[j])
    /\ CompletedIsServed

(* What has been activated, and for whom, is settled. *)
LEMMA ActivatedStays ==
  ASSUME VerdictInv, [Next]_vars, NEW k \in Job, cfs[k] = "activated"
  PROVE  cfs'[k] = "activated" /\ request'[k] = request[k]
<1>1. so[k] \notin {"none", "requested", "parked"}
  BY DEF VerdictInv, Decomposed
<1>2. CASE UNCHANGED <<request, cfs>>
  BY <1>2
<1>3. ASSUME NEW c \in Caller, NEW j \in Job, CommitSubmit(c, j)
      PROVE  cfs'[k] = "activated" /\ request'[k] = request[k]
  BY <1>1, <1>3 DEF CommitSubmit, FirstUnused, VerdictInv, TypeOK
<1>4. ASSUME NEW j \in Job, Decompose(j)
      PROVE  cfs'[k] = "activated" /\ request'[k] = request[k]
  BY <1>1, <1>4 DEF Decompose, VerdictInv, TypeOK
<1>5. ASSUME NEW m \in results, ActivateService(m) \/ FailService(m)
      PROVE  cfs'[k] = "activated" /\ request'[k] = request[k]
  BY <1>5, ResultFacts DEF ActivateService, FailService, VerdictInv, TypeOK
<1>6. \/ UNCHANGED <<request, cfs>>
      \/ \E c \in Caller, j \in Job : CommitSubmit(c, j)
      \/ \E j \in Job : Decompose(j)
      \/ \E m \in results : ActivateService(m) \/ FailService(m)
  <2>1. ASSUME NEW j \in Job, DecomposeStep(j) PROVE UNCHANGED <<request, cfs>> \/ Decompose(j)
    BY <2>1 DEF DecomposeStep, ReserveNumber, ReserveSim, Reserve, DecomposeFails
  <2>2. ASSUME NEW j \in Job, VerdictStep(j) PROVE UNCHANGED <<request, cfs>>
    BY <2>2 DEF VerdictStep, CreateHit, Create, CreateRefused, CreateDeclined, CreateFailsCharged,
                CommitCompleted, Completed, RollbackCompleted, FailOrder, SkipVerdict, somVars
  <2>3. ResultStep \/ ResultFault =>
          UNCHANGED <<request, cfs>> \/ \E m \in results : ActivateService(m) \/ FailService(m)
    BY DEF ResultStep, ResultFault, CountTask, RecordStuck, ParkResult, FailServiceRollsBack, somVars
  <2>. QED BY <2>1, <2>2, <2>3, CallerQuiet DEF Next, vars, somVars
<1>. QED BY <1>2, <1>3, <1>4, <1>5, <1>6

LEMMA ServedStays ==
  ASSUME VerdictInv, [Next]_vars, subs \subseteq subs', NEW o, Served(o)
  PROVE  Served(o)'
<1>1. PICK k \in subs : request[k] = o /\ cfs[k] = "activated"
  BY DEF Served
<1>2. k \in Job
  BY DEF VerdictInv, TypeOK
<1>. QED BY <1>1, <1>2, ActivatedStays DEF Served

LEMMA ServedStep == VerdictInv /\ ServedInv /\ [Next]_vars => ServedInv'
<1> SUFFICES ASSUME VerdictInv, ServedInv, [Next]_vars PROVE ServedInv'
  OBVIOUS
<1>1. created \subseteq Job /\ subs \subseteq Job
  BY DEF VerdictInv, TypeOK
<1>2. \A j \in created : cfs[j] = "activated"
  BY <1>1 DEF VerdictInv, InHand, OneVerdict
<1>3. ASSUME subs' = subs, created' \subseteq created,
             \A o \in Order : order'[o] = "completed" =>
                                 order[o] = "completed" \/ \E j \in created : request[j] = o
      PROVE  ServedInv'
  <2>1. \A k \in subs' : cfs'[k] = "activated"
    BY <1>1, <1>3, ActivatedStays DEF ServedInv
  <2>2. \A j \in created' : Served(request[j])' /\ request'[j] = request[j]
    BY <1>1, <1>2, <1>3, ActivatedStays, ServedStays DEF ServedInv
  <2>3. ASSUME NEW o \in Order, order'[o] = "completed" PROVE Served(o)'
    <3>1. Served(o)
      BY <1>3, <2>3 DEF ServedInv, CompletedIsServed, Served
    <3>. QED BY <1>3, <3>1, ServedStays
  <2>. QED BY <2>1, <2>2, <2>3 DEF ServedInv, CompletedIsServed, Served
<1>4. ASSUME NEW j \in Job, CreateHit(j) PROVE ServedInv'
  <2>1. /\ UNCHANGED <<order, request, cfs, subs>>
        /\ created' = created \union {j} /\ Existing(request[j])
    BY <1>4 DEF CreateHit, comVars, somVars, subVars
  <2>. QED BY <2>1 DEF Existing, ServedInv, CompletedIsServed, Served
<1>5. ASSUME NEW j \in Job, Create(j) PROVE ServedInv'
  <2>1. /\ UNCHANGED <<order, request, cfs>>
        /\ created' = created \union {j} /\ subs' = subs \union {j}
        /\ cfs[j] = "activated"
    BY <1>5 DEF Create, comVars, somVars, Activating, VerdictInv, OneVerdict
  <2>. QED BY <2>1 DEF ServedInv, CompletedIsServed, Served
<1>6. ASSUME NEW j \in Job, CommitCompleted(j) PROVE ServedInv'
  BY <1>3, <1>6 DEF CommitCompleted, Completed, subVars, VerdictInv, TypeOK
<1>7. ASSUME NEW j \in Job, FailOrder(j) PROVE ServedInv'
  BY <1>3, <1>7 DEF FailOrder, subVars, VerdictInv, TypeOK
<1>8. ASSUME NEW o \in Order, CreateOrder(o) PROVE ServedInv'
  BY <1>3, <1>8 DEF CreateOrder, subVars, VerdictInv, TypeOK
<1>9. ASSUME NEW c \in Caller, ComCall(c) PROVE ServedInv'
  BY <1>3, <1>9, CallFacts DEF ComCall, BeginSubmit, BeginCancel, AskSom, CommitCancel, Cancelled,
         CommitSubmit, Abandon, subVars, VerdictInv, TypeOK
<1>10. \/ UNCHANGED vars
       \/ \E c \in Caller : ResolveCall(c)
       \/ \E j \in Job : \/ DecomposeStep(j)
                         \/ CreateRefused(j) \/ CreateDeclined(j) \/ CreateFailsCharged(j)
                         \/ RollbackCompleted(j)
       \/ \E v \in Verdict : SkipVerdict(v)
       \/ TaskStep \/ TaskFault \/ ResultStep \/ ResultFault
       => order' = order /\ subs' = subs /\ created' \subseteq created
  BY DEF vars, ResolveCall, BeginResolve, Resolve, DecomposeStep, ReserveNumber, ReserveSim, Reserve,
         DecomposeFails, Decompose, CreateRefused, CreateDeclined, CreateFailsCharged,
         RollbackCompleted, SkipVerdict, TaskStep, RunTask, TaskFault, DropTask,
         ResultStep, CountTask, ActivateService, FailService, RecordStuck, ParkResult,
         ResultFault, FailServiceRollsBack, comVars, subVars
<1>11. \A j \in Job : <<j, "completed">> \in Verdict /\ <<j, "failed">> \in Verdict
  BY VerdictFacts
<1>12. ASSUME NEW j \in Job, VerdictStep(j) PROVE ServedInv'
  BY <1>3, <1>4, <1>5, <1>6, <1>7, <1>10, <1>11, <1>12 DEF VerdictStep
<1>. QED BY <1>3, <1>8, <1>9, <1>10, <1>12 DEF Next

(* An order is completed only once its subscription exists on an activated
   service, whatever was retried, cancelled or submitted twice. *)
THEOREM CompletedOrdersServed == Spec => []CompletedIsServed
<1>1. Init => ServedInv
  BY DEF Init, ServedInv, CompletedIsServed
<1>2. ServedInv => CompletedIsServed
  BY DEF ServedInv
<1>. QED BY <1>1, <1>2, ServedStep, VerdictInvHolds, PTL DEF Spec

LEMMA ChargeStep ==
  VerdictInv /\ [Next]_vars =>
      \A o \in Order : (\E k \in subs : request[k] = o) => charges'[o] = charges[o]
<1> SUFFICES ASSUME VerdictInv, [Next]_vars, NEW o \in Order, \E k \in subs : request[k] = o
             PROVE  charges'[o] = charges[o]
  OBVIOUS
<1>1. ASSUME NEW j \in Job, Create(j) \/ CreateFailsCharged(j) PROVE charges'[o] = charges[o]
  <2>1. request[j] # o /\ Charged(request[j])
    BY <1>1 DEF Create, CreateFailsCharged, Existing
  <2>. QED BY <2>1 DEF Charged, VerdictInv, TypeOK
<1>2. ASSUME NEW j \in Job, VerdictStep(j)
      PROVE  charges' = charges \/ Create(j) \/ CreateFailsCharged(j)
  BY <1>2 DEF VerdictStep, CreateHit, CreateRefused, CreateDeclined, CommitCompleted, Completed,
              RollbackCompleted, FailOrder, SkipVerdict, subVars
<1>3. \/ UNCHANGED vars
      \/ \E p \in Order : CreateOrder(p)
      \/ \E c \in Caller : ComCall(c) \/ ResolveCall(c)
      \/ \E j \in Job : DecomposeStep(j)
      \/ TaskStep \/ TaskFault \/ ResultStep \/ ResultFault
      => charges' = charges
  BY DEF vars, CreateOrder, ComCall, BeginSubmit, BeginCancel, AskSom, CommitCancel, Cancelled,
         CommitSubmit, Abandon, ResolveCall, BeginResolve, Resolve,
         DecomposeStep, ReserveNumber, ReserveSim, Reserve, DecomposeFails, Decompose,
         TaskStep, RunTask, TaskFault, DropTask, ResultStep, CountTask, ActivateService,
         FailService, RecordStuck, ParkResult, ResultFault, FailServiceRollsBack, subVars
<1>. QED BY <1>1, <1>2, <1>3 DEF Next

(* Once a subscription exists for an order no retry of its event charges the
   card again: subscription.create looks the order up first. *)
THEOREM ChargedNoMore == Spec => NoChargeAfterCreate
<1>1. VerdictInv /\ [Next]_vars =>
        [\A o \in Order : (\E k \in subs : request[k] = o) => charges'[o] = charges[o]]_vars
  BY ChargeStep
<1>. QED BY <1>1, VerdictInvHolds, PTL DEF Spec, NoChargeAfterCreate

-----------------------------------------------------------------------------
(* One holder per number and eSIM. *)

Calm == faults = 0 /\ declined = {}

(* The pool does not offer what a live service holds. *)
KeepsItems == \A j \in Job : cfs[j] # "failed" => \A x \in items[j] : stock[x] # "available"

HeldInv == Calm => KeepsItems /\ ItemsExclusive

(* Calm once broken is broken for good. *)
LEMMA CalmBefore ==
  ASSUME TypeOK, [Next]_vars, Calm'
  PROVE  Calm
<1>1. UNCHANGED faults \/ Fault
  <2>1. \A j \in Job : DecomposeStep(j) \/ VerdictStep(j) => UNCHANGED faults \/ Fault
    BY DEF DecomposeStep, ReserveNumber, ReserveSim, Reserve, DecomposeFails, Decompose,
           VerdictStep, CreateHit, Create, CreateRefused, CreateDeclined, CreateFailsCharged,
           CommitCompleted, Completed, RollbackCompleted, FailOrder, SkipVerdict
  <2>2. TaskStep \/ TaskFault \/ ResultStep \/ ResultFault => UNCHANGED faults \/ Fault
    BY DEF TaskStep, RunTask, TaskFault, DropTask, ResultStep, CountTask, ActivateService,
           FailService, RecordStuck, ParkResult, ResultFault, FailServiceRollsBack, Consume
  <2>3. \A c \in Caller : ComCall(c) \/ ResolveCall(c) => UNCHANGED faults
    BY DEF ComCall, BeginSubmit, BeginCancel, AskSom, CommitCancel, Cancelled, CommitSubmit,
           Abandon, ResolveCall, BeginResolve, Resolve
  <2>. QED BY <2>1, <2>2, <2>3 DEF Next, CreateOrder, vars
<1>2. declined \subseteq declined'
  <2>1. \A j \in Job : DecomposeStep(j) \/ VerdictStep(j) => declined \subseteq declined'
    BY DEF DecomposeStep, ReserveNumber, ReserveSim, Reserve, DecomposeFails, Decompose,
           VerdictStep, CreateHit, Create, CreateRefused, CreateDeclined, CreateFailsCharged,
           CommitCompleted, Completed, RollbackCompleted, FailOrder, SkipVerdict, subVars
  <2>2. TaskStep \/ TaskFault \/ ResultStep \/ ResultFault => UNCHANGED declined
    BY DEF TaskStep, RunTask, TaskFault, DropTask, ResultStep, CountTask, ActivateService,
           FailService, RecordStuck, ParkResult, ResultFault, FailServiceRollsBack, subVars
  <2>3. \A c \in Caller : ComCall(c) \/ ResolveCall(c) => UNCHANGED declined
    BY DEF ComCall, BeginSubmit, BeginCancel, AskSom, CommitCancel, Cancelled, CommitSubmit,
           Abandon, ResolveCall, BeginResolve, Resolve, subVars
  <2>. QED BY <2>1, <2>2, <2>3 DEF Next, CreateOrder, vars, subVars
<1>. QED BY <1>1, <1>2 DEF Calm, Fault, TypeOK

(* A step that frees nothing and revives no service keeps every holder. *)
LEMMA HeldQuiet ==
  ASSUME KeepsItems, ItemsExclusive, Calm, UNCHANGED items,
         \A j \in Job : cfs'[j] # "failed" => cfs[j] # "failed",
         \A x \in Item : stock[x] # "available" => stock'[x] # "available",
         \A j \in Job : items[j] \subseteq Item
  PROVE  (KeepsItems /\ ItemsExclusive)'
  BY DEF KeepsItems, ItemsExclusive, Calm

(* Giving back what only one job holds, as that job lets go of it. *)
LEMMA HolderReleases ==
  ASSUME TypeOK, KeepsItems, ItemsExclusive, Calm, NEW j \in Job, cfs[j] # "failed",
         Release(items[j]),
         \A i \in Job \ {j} : cfs'[i] = cfs[i] /\ items'[i] = items[i],
         cfs'[j] = "failed" \/ items'[j] = {}
  PROVE  (KeepsItems /\ ItemsExclusive)'
<1>1. ASSUME NEW i \in Job \ {j}, cfs[i] # "failed", NEW x \in items[i]
      PROVE  stock'[x] # "available"
  <2>1. x \notin items[j] /\ x \in Item /\ stock[x] # "available"
    BY <1>1 DEF KeepsItems, ItemsExclusive, Calm, TypeOK
  <2>. QED BY <2>1 DEF Release
<1>2. KeepsItems'
  BY <1>1 DEF KeepsItems
<1>3. ItemsExclusive'
  BY DEF ItemsExclusive, Calm
<1>. QED BY <1>2, <1>3

LEMMA DecomposeHeld ==
  ASSUME VerdictInv, KeepsItems, ItemsExclusive, Calm, Calm', NEW j \in Job, DecomposeStep(j)
  PROVE  (KeepsItems /\ ItemsExclusive)'
<1>1. ASSUME NEW x \in Item, Reserve(j, x) PROVE (KeepsItems /\ ItemsExclusive)'
  <2>1. \A i \in Job : cfs[i] # "failed" => x \notin items[i]
    BY <1>1 DEF Reserve, Free, KeepsItems
  <2>2. /\ UNCHANGED cfs
        /\ \A i \in Job : items'[i] = IF i = j THEN items[i] \union {x} ELSE items[i]
        /\ \A y \in Item : stock'[y] = IF y = x THEN "reserved" ELSE stock[y]
    BY <1>1 DEF Reserve, VerdictInv, TypeOK
  <2>3. cfs[j] # "failed" /\ \A i \in Job : items[i] \subseteq Item
    BY <1>1 DEF Reserve, VerdictInv, Decomposed, TypeOK
  <2>4. KeepsItems'
    BY <2>2, <2>3 DEF KeepsItems
  <2>5. ItemsExclusive'
    BY <2>1, <2>2 DEF ItemsExclusive, Calm
  <2>. QED BY <2>4, <2>5
<1>2. CASE DecomposeFails(j)
  <2>1. Release(items[j]) /\ UNCHANGED cfs /\ cfs[j] # "failed"
    BY <1>2 DEF DecomposeFails, Fault, Calm, VerdictInv, Decomposed, TypeOK
  <2>2. items' = [items EXCEPT ![j] = {}]
    BY <1>2 DEF DecomposeFails
  <2>. QED BY <2>1, <2>2, HolderReleases DEF VerdictInv, TypeOK
<1>3. CASE Decompose(j)
  BY <1>3, HeldQuiet DEF Decompose, VerdictInv, Decomposed, TypeOK
<1>. QED BY <1>1, <1>2, <1>3 DEF DecomposeStep, ReserveNumber, ReserveSim

LEMMA ResultHeld ==
  ASSUME VerdictInv, KeepsItems, ItemsExclusive, Calm, Calm', ResultStep \/ ResultFault
  PROVE  (KeepsItems /\ ItemsExclusive)'
<1>1. SUFFICES ASSUME NEW m \in results,
                      \/ CountTask(m) \/ ActivateService(m) \/ FailService(m)
                      \/ RecordStuck(m) \/ ParkResult(m) \/ FailServiceRollsBack(m)
               PROVE  (KeepsItems /\ ItemsExclusive)'
  BY DEF ResultStep, ResultFault
<1>2. m.job \in Job /\ \A j \in Job : items[j] \subseteq Item
  BY ResultFacts DEF VerdictInv, TypeOK
<1>3. CASE FailService(m)
  <2>1. Release(items[m.job])
    BY <1>3 DEF FailService, Fault, Calm, VerdictInv, TypeOK
  <2>2. cfs[m.job] # "failed" /\ cfs' = [cfs EXCEPT ![m.job] = "failed"] /\ UNCHANGED items
    BY <1>3 DEF FailService
  <2>. QED BY <1>2, <2>1, <2>2, HolderReleases DEF VerdictInv, TypeOK
<1>4. CASE FailServiceRollsBack(m)
  BY <1>4 DEF FailServiceRollsBack, Fault, Calm, VerdictInv, TypeOK
<1>5. CASE ActivateService(m)
  BY <1>2, <1>5, HeldQuiet DEF ActivateService, VerdictInv, TypeOK
<1>6. CASE CountTask(m) \/ RecordStuck(m) \/ ParkResult(m)
  BY <1>2, <1>6, HeldQuiet DEF CountTask, RecordStuck, ParkResult, somVars
<1>. QED BY <1>1, <1>3, <1>4, <1>5, <1>6

LEMMA VerdictHeld ==
  ASSUME VerdictInv, KeepsItems, ItemsExclusive, Calm, Calm', NEW j \in Job, VerdictStep(j)
  PROVE  (KeepsItems /\ ItemsExclusive)'
<1>1. \A i \in Job : items[i] \subseteq Item
  BY DEF VerdictInv, TypeOK
<1>2. CASE CreateDeclined(j)
  BY <1>2 DEF CreateDeclined, Calm
<1>3. CASE Create(j) \/ CreateFailsCharged(j)
  <2>1. UNCHANGED <<items, cfs>> /\ Assign(items[j])
    BY <1>3 DEF Create, CreateFailsCharged, somVars
  <2>. QED BY <1>1, <2>1, HeldQuiet DEF Assign
<1>4. CASE UNCHANGED <<items, cfs, stock>>
  BY <1>1, <1>4, HeldQuiet
<1>. QED BY <1>2, <1>3, <1>4 DEF VerdictStep, CreateHit, CreateRefused, CommitCompleted, Completed,
            RollbackCompleted, FailOrder, SkipVerdict, somVars

LEMMA HeldStep == VerdictInv /\ HeldInv /\ [Next]_vars => HeldInv'
<1> SUFFICES ASSUME VerdictInv, HeldInv, [Next]_vars, Calm' PROVE (KeepsItems /\ ItemsExclusive)'
  BY DEF HeldInv
<1>1. Calm /\ KeepsItems /\ ItemsExclusive
  BY CalmBefore DEF HeldInv, VerdictInv
<1>2. CASE UNCHANGED <<items, cfs, stock>>
  BY <1>1, <1>2, HeldQuiet DEF VerdictInv, TypeOK
<1>3. \/ UNCHANGED vars
      \/ \E o \in Order : CreateOrder(o)
      \/ \E c \in Caller : ComCall(c) \/ ResolveCall(c)
      \/ TaskStep \/ TaskFault
      => UNCHANGED <<items, cfs, stock>>
  BY DEF vars, CreateOrder, ComCall, BeginSubmit, BeginCancel, AskSom, CommitCancel, Cancelled,
         CommitSubmit, Abandon, ResolveCall, BeginResolve, Resolve, TaskStep, RunTask, TaskFault,
         DropTask, somVars
<1>. QED BY <1>1, <1>2, <1>3, DecomposeHeld, ResultHeld, VerdictHeld DEF Next

(* A number or eSIM has one live service, as long as no crash and no declined
   charge gives it back under its holder: the pool hands out only what is
   available, and whoever releases it lets go of it. *)
THEOREM ItemsHaveOneHolder == Spec => []ItemsExclusive
<1>1. Init => HeldInv
  BY DEF Init, HeldInv, KeepsItems, ItemsExclusive
<1>2. HeldInv => ItemsExclusive
  BY DEF HeldInv, Calm, ItemsExclusive
<1>. QED BY <1>1, <1>2, HeldStep, VerdictInvHolds, PTL DEF Spec
=============================================================================
