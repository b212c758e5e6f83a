------------------------- MODULE EventIntakeProofs -------------------------
(***************************************************************************)
(* Proofs about EventIntake, for any events, deliveries and bounds.        *)
(*                                                                         *)
(* A trigger is pristine until its only job is added: the unique row of an *)
(* event is written by one delivery, which then holds the only right to    *)
(* enqueue, and a request enqueues once.  So every job of a trigger        *)
(* carries the same receivedEventId, 1, and findByReceivedEventId() cannot *)
(* miss a task that an earlier attempt has created.  With it each step is  *)
(* a step of Intake, or changes nothing Intake speaks of.                  *)
(***************************************************************************)
EXTENDS EventIntake, TLAPS

\* The events that some change with their id makes relevant.
Relevant == {SourceEventId(c) : c \in {x \in JiraChanges : TriggersWork(x)}}

Types ==
    /\ tracked \in BOOLEAN /\ asked \subseteq Requests /\ worker \in {"up", "down"}
    /\ rows \in [Events -> Seq(BOOLEAN)]
    /\ delivery \in [Deliveries -> {"sent", "recorded", "accepted", "duplicate", "lost"}]
    /\ row \in [Deliveries -> Nat]
    /\ job \in [Triggers -> {"none", "waiting", "active", "failed"}]
    /\ payload \in [Triggers -> Nat]
    /\ handler \in [Triggers -> {"idle", "lookup", "create", "run", "return"}]
    /\ tasks \in [Triggers -> Seq(Nat)]

Pristine(t) == job[t] = "none" /\ tasks[t] = <<>>

\* What a delivery knows is true of its event until it enqueues it.
DeliveryInv(d) ==
    delivery[d] = "recorded" =>
        /\ EventOf(d) \in Relevant \cup GitHubEvents
        /\ row[d] = 1 /\ rows[EventOf(d)] # <<>> /\ Pristine(EventOf(d))

\* No two deliveries hold the right to enqueue one event.
OneEnqueuer ==
    \A d, c \in Deliveries :
        delivery[d] = "recorded" /\ delivery[c] = "recorded" /\ EventOf(d) = EventOf(c) => d = c

\* An event without a row, and a request not made, have left no trace.
Untouched ==
    /\ \A e \in Events : rows[e] = <<>> => Pristine(e)
    /\ \A q \in Requests \ asked : Pristine(q)

\* All that is ever queued, handled or created for a trigger carries the id 1.
TriggerInv(t) ==
    /\ handler[t] # "idle" => job[t] = "active"
    /\ job[t] # "none" => payload[t] = 1
    /\ tasks[t] \in {<<>>, <<1>>}
    /\ handler[t] = "create" => tasks[t] = <<>>

\* Only what may become a task is handled as one.
RelevanceInv(t) ==
    /\ t \in JiraEvents /\ (job[t] # "none" \/ tasks[t] # <<>>) => t \in Relevant
    /\ t \in GitHubEvents => handler[t] \in {"idle", "return"} /\ tasks[t] = <<>>

IInv ==
    /\ Types
    /\ \A d \in Deliveries : DeliveryInv(d)
    /\ OneEnqueuer
    /\ Untouched
    /\ \A t \in Triggers : TriggerInv(t) /\ RelevanceInv(t)

-----------------------------------------------------------------------------
LEMMA DeliveryEvents == \A d \in Deliveries : EventOf(d) \in Events /\ EventOf(d) \in Triggers
BY IntakeAssumption DEF Events, Triggers, JiraEvents, EventOf

\* An id is another's only if both are ids of changes.
LEMMA RelevantEvents == Relevant \subseteq JiraEvents
BY DEF Relevant, JiraEvents

LEMMA RelevantDelivery ==
  ASSUME NEW d \in Deliveries, IsRelevant(d)
  PROVE  EventOf(d) \in Relevant \cup GitHubEvents
BY IntakeAssumption DEF IsRelevant, EventOf, Relevant

LEMMA VerdictIsBoolean ==
  ASSUME Types, NEW d \in Deliveries PROVE IsRelevant(d) \in BOOLEAN
BY DEF Types, IsRelevant, TriggersWork

LEMMA InitIInv == Init => IInv
<1> SUFFICES ASSUME Init PROVE IInv
    OBVIOUS
<1> USE DeliveryEvents, IntakeAssumption DEF Init
<1>1. Types
  <2>1. <<>> \in Seq(BOOLEAN) /\ <<>> \in Seq(Nat)
    OBVIOUS
  <2>2. QED
    BY <2>1 DEF Types
<1>2. \A d \in Deliveries : DeliveryInv(d)
    BY DEF DeliveryInv
<1>3. OneEnqueuer
    BY DEF OneEnqueuer
<1>4. Untouched
    BY DEF Untouched, Pristine, Triggers
<1>5. \A t \in Triggers : TriggerInv(t) /\ RelevanceInv(t)
    BY DEF TriggerInv, RelevanceInv
<1>6. QED
    BY <1>1, <1>2, <1>3, <1>4, <1>5 DEF IInv

\* A step of the worker touches one trigger, whose job is there: no delivery and no
\* request still counts on that trigger being pristine.
LEMMA WorkerStepKeeps ==
  ASSUME IInv, Types', UNCHANGED <<rows, apiVars>>,
         \A t \in Triggers : \/ TriggerInv(t)' /\ RelevanceInv(t)' /\ job[t] # "none"
                             \/ UNCHANGED <<job[t], payload[t], handler[t], tasks[t]>>
  PROVE  IInv'
<1> USE DeliveryEvents DEF apiVars
<1>1. \A d \in Deliveries : DeliveryInv(d)'
    BY DEF IInv, DeliveryInv, Pristine
<1>2. OneEnqueuer'
    BY DEF IInv, OneEnqueuer
<1>3. Untouched'
    BY DEF IInv, Untouched, Pristine, Triggers
<1>4. \A t \in Triggers : TriggerInv(t)' /\ RelevanceInv(t)'
    BY DEF IInv, TriggerInv, RelevanceInv
<1>5. QED
    BY <1>1, <1>2, <1>3, <1>4 DEF IInv

\* The steps of the worker's handlers.
LEMMA HandlerKeeps ==
  ASSUME IInv, NEW t \in Triggers,
         StartJob(t) \/ HandlerStep(t) \/ HandlerThrows(t)
  PROVE  IInv'
<1> USE DEF IInv, Types, eventVars, apiVars
<1> DEFINE Keeps == /\ Types' /\ UNCHANGED <<rows, apiVars>>
                    /\ job[t] # "none" /\ TriggerInv(t)' /\ RelevanceInv(t)'
                    /\ \A u \in Triggers \ {t} :
                          UNCHANGED <<job[u], payload[u], handler[u], tasks[u]>>
<1>1. CASE StartJob(t)
  <2>1. Keeps
    BY <1>1, IntakeAssumption DEF StartJob, TriggerInv, RelevanceInv, Triggers, Events
  <2>2. QED
    BY <2>1, WorkerStepKeeps
<1>2. CASE LookUpTask(t)
  <2>1. payload[t] = 1 /\ tasks[t] \in {<<>>, <<1>>}
    BY <1>2 DEF LookUpTask, TriggerInv
  <2>2. tasks[t] # <<>> => AlreadyProduced(t)
    <3>1. Len(<<1>>) = 1 /\ <<1>>[1] = 1 /\ 1 \in 1..1
      OBVIOUS
    <3>2. QED
      BY <2>1, <3>1 DEF AlreadyProduced
  <2>3. Keeps
    BY <1>2, <2>2, IntakeAssumption DEF LookUpTask, TriggerInv, RelevanceInv, jobVars
  <2>4. QED
    BY <2>3, WorkerStepKeeps
<1>3. CASE CreateTask(t)
  <2>1. tasks[t] = <<>> /\ payload[t] = 1 /\ job[t] = "active"
    BY <1>3 DEF CreateTask, TriggerInv
  <2>2. tasks'[t] = <<1>>
    <3>1. tasks'[t] = Append(<<>>, 1)
      BY <1>3, <2>1 DEF CreateTask
    <3>2. Append(<<>>, 1) = <<1>>
      OBVIOUS
    <3>3. QED
      BY <3>1, <3>2
  <2>3. Types'
    <3>1. tasks' = [tasks EXCEPT ![t] = <<1>>] /\ <<1>> \in Seq(Nat)
      BY <1>3, <2>1, <2>2 DEF CreateTask
    <3>2. tasks' \in [Triggers -> Seq(Nat)]
      BY <3>1
    <3>3. QED
      BY <1>3, <3>2 DEF CreateTask, jobVars
  <2>4. /\ handler'[t] = "run" /\ UNCHANGED <<rows, apiVars, job, payload>>
        /\ \A u \in Triggers \ {t} : UNCHANGED <<handler[u], tasks[u]>>
    BY <1>3 DEF CreateTask, jobVars
  <2>5. TriggerInv(t)'
    BY <2>1, <2>2, <2>4 DEF TriggerInv
  <2>6. RelevanceInv(t)'
    BY <1>3, <2>1, <2>4 DEF CreateTask, RelevanceInv
  <2>7. Keeps
    BY <2>1, <2>3, <2>4, <2>5, <2>6
  <2>8. QED
    BY <2>7, WorkerStepKeeps
<1>4. CASE RunTask(t)
  <2>1. Keeps
    BY <1>4 DEF RunTask, TriggerInv, RelevanceInv, jobVars
  <2>2. QED
    BY <2>1, WorkerStepKeeps
<1>5. CASE FinishJob(t)
  <2>1. Keeps
    BY <1>5 DEF FinishJob, TriggerInv, RelevanceInv
  <2>2. QED
    BY <2>1, WorkerStepKeeps
<1>6. CASE HandlerThrows(t)
  <2>1. Keeps
    BY <1>6 DEF HandlerThrows, TriggerInv, RelevanceInv
  <2>2. QED
    BY <2>1, WorkerStepKeeps
<1>7. QED
    BY <1>1, <1>2, <1>3, <1>4, <1>5, <1>6 DEF HandlerStep

LEMMA CrashKeeps ==
  ASSUME IInv, WorkerCrash \/ WorkerRestart
  PROVE  IInv'
<1> USE DEF IInv, eventVars, apiVars
<1>1. CASE WorkerCrash
  <2>1. Types' /\ UNCHANGED <<rows, apiVars>>
    BY <1>1 DEF WorkerCrash, Types
  <2>2. \A t \in Triggers : /\ job[t] = "none" <=> job'[t] = "none"
                            /\ handler'[t] = "idle"
                            /\ UNCHANGED <<payload[t], tasks[t]>>
    BY <1>1 DEF WorkerCrash, Types
  <2>3. \A t \in Triggers : TriggerInv(t)' /\ RelevanceInv(t)'
    BY <2>2 DEF TriggerInv, RelevanceInv
  <2>4. \A t \in Triggers : job[t] = "none" =>
                              UNCHANGED <<job[t], payload[t], handler[t], tasks[t]>>
    BY <2>2 DEF TriggerInv
  <2>5. QED
    BY <2>1, <2>3, <2>4, WorkerStepKeeps
<1>2. CASE WorkerRestart
    BY <1>2, WorkerStepKeeps DEF WorkerRestart, Types, jobVars
<1>3. QED
    BY <1>1, <1>2

\* The steps of the API's routes.
LEMMA RouteKeeps ==
  ASSUME IInv, NEW d \in Deliveries,
         RouteStep(d) \/ DeliveryFault(d)
  PROVE  IInv'
<1> USE DeliveryEvents, VerdictIsBoolean, RelevantDelivery DEF IInv
<1>1. CASE Receive(d)
  <2> USE <1>1 DEF Receive, jobVars, workerVars
  <2>1. CASE IsNew(EventOf(d)) /\ delivery'[d] # "duplicate"
    <3>1. rows[EventOf(d)] = <<>> /\ Len(rows[EventOf(d)]) + 1 = 1
      BY <2>1 DEF IsNew
    <3>2. rows'[EventOf(d)] # <<>> /\ \A e \in Events \ {EventOf(d)} : rows'[e] = rows[e]
      <4>1. /\ rows' = [rows EXCEPT ![EventOf(d)] = Append(rows[EventOf(d)], IsRelevant(d))]
            /\ IsRelevant(d) \in BOOLEAN
        BY <2>1 DEF Types
      <4>2. Append(<<>>, IsRelevant(d)) = <<IsRelevant(d)>> /\ <<IsRelevant(d)>> # <<>>
        BY <4>1
      <4>3. QED
        BY <3>1, <4>1, <4>2 DEF Types
    <3>3. /\ row' = [row EXCEPT ![d] = 1]
          /\ delivery' = [delivery EXCEPT ![d] = IF IsRelevant(d) THEN "recorded" ELSE "accepted"]
      BY <2>1, <3>1 DEF Types
    <3>4. \A c \in Deliveries : delivery[c] = "recorded" => EventOf(c) # EventOf(d)
      BY <3>1 DEF DeliveryInv
    <3>5. Types'
      <4>1. /\ rows' = [rows EXCEPT ![EventOf(d)] = Append(rows[EventOf(d)], IsRelevant(d))]
            /\ IsRelevant(d) \in BOOLEAN /\ rows[EventOf(d)] \in Seq(BOOLEAN)
        BY <2>1 DEF Types
      <4>2. rows' \in [Events -> Seq(BOOLEAN)]
        BY <4>1 DEF Types
      <4>3. QED
        BY <3>3, <4>2 DEF Types
    <3>6. \A c \in Deliveries : DeliveryInv(c)'
      BY <3>1, <3>2, <3>3 DEF DeliveryInv, Untouched, Pristine, Types
    <3>7. OneEnqueuer'
      BY <3>3, <3>4 DEF OneEnqueuer, Types
    <3>8. Untouched'
      BY <3>2 DEF Untouched, Pristine
    <3>9. \A t \in Triggers : TriggerInv(t)' /\ RelevanceInv(t)'
      BY DEF TriggerInv, RelevanceInv
    <3>10. QED
      BY <3>5, <3>6, <3>7, <3>8, <3>9
  <2>2. CASE delivery' = [delivery EXCEPT ![d] = "duplicate"] /\ UNCHANGED <<rows, row>>
    <3>1. Types'
      BY <2>2 DEF Types
    <3>2. \A c \in Deliveries : DeliveryInv(c)'
      BY <2>2 DEF DeliveryInv, Pristine, Types
    <3>3. OneEnqueuer' /\ Untouched'
      BY <2>2 DEF OneEnqueuer, Untouched, Pristine, Types
    <3>4. \A t \in Triggers : TriggerInv(t)' /\ RelevanceInv(t)'
      BY DEF TriggerInv, RelevanceInv
    <3>5. QED
      BY <3>1, <3>2, <3>3, <3>4
  <2>3. QED
    BY <2>1, <2>2 DEF Types
<1>2. CASE Enqueue(d)
  <2> USE <1>2 DEF Enqueue, eventVars, workerVars
  <2> DEFINE e == EventOf(d)
  <2>1. /\ delivery[d] = "recorded" /\ row[d] = 1 /\ rows[e] # <<>>
        /\ Pristine(e) /\ e \in Relevant \cup GitHubEvents
        /\ e \in Triggers /\ e \in Events
    BY DEF DeliveryInv
  <2>2. /\ job' = [job EXCEPT ![e] = "waiting"]
        /\ payload' = [payload EXCEPT ![e] = 1]
    BY <2>1 DEF AddJob, Pristine
  <2>3. \A c \in Deliveries : delivery'[c] = "recorded" => delivery[c] = "recorded" /\ EventOf(c) # e
    BY <2>1 DEF OneEnqueuer, Types
  <2>4. Types'
    BY <2>2 DEF Types
  <2>5. \A c \in Deliveries : DeliveryInv(c)'
    BY <2>2, <2>3 DEF DeliveryInv, Pristine, Types
  <2>6. OneEnqueuer'
    BY <2>3 DEF OneEnqueuer
  <2>7. Untouched'
    BY <2>1, <2>2, IntakeAssumption DEF Untouched, Pristine, Types, Events
  <2>8. \A t \in Triggers : TriggerInv(t)' /\ RelevanceInv(t)'
    BY <2>1, <2>2, IntakeAssumption DEF TriggerInv, RelevanceInv, Pristine, Types
  <2>9. QED
    BY <2>4, <2>5, <2>6, <2>7, <2>8
<1>3. CASE DeliveryFault(d)
  <2> USE <1>3 DEF DeliveryFault, eventVars, jobVars, workerVars
  <2>1. delivery'[d] = "lost" /\ Types'
    BY DEF Types
  <2>2. \A c \in Deliveries : DeliveryInv(c)'
    BY <2>1 DEF DeliveryInv, Pristine, Types
  <2>3. OneEnqueuer' /\ Untouched'
    BY <2>1 DEF OneEnqueuer, Untouched, Pristine, Types
  <2>4. \A t \in Triggers : TriggerInv(t)' /\ RelevanceInv(t)'
    BY DEF TriggerInv, RelevanceInv
  <2>5. QED
    BY <2>1, <2>2, <2>3, <2>4
<1>4. QED
  BY <1>1, <1>2, <1>3 DEF RouteStep

LEMMA AskKeeps ==
  ASSUME IInv, NEW q \in Requests, Ask(q)
  PROVE  IInv'
<1> USE IntakeAssumption, DeliveryEvents DEF IInv, Ask, eventVars, workerVars
<1>1. q \in Triggers /\ q \notin Events /\ Pristine(q)
    BY DEF Untouched, Triggers, Events
<1>2. /\ job' = [job EXCEPT ![q] = "waiting"]
      /\ payload' = [payload EXCEPT ![q] = 1]
    BY <1>1 DEF AddJob, Pristine
<1>3. Types'
    BY <1>2 DEF Types
<1>4. \A d \in Deliveries : DeliveryInv(d)'
    BY <1>1, <1>2 DEF DeliveryInv, Pristine, Types
<1>5. OneEnqueuer'
    BY DEF OneEnqueuer
<1>6. Untouched'
    BY <1>1, <1>2 DEF Untouched, Pristine, Types
<1>7. \A t \in Triggers : TriggerInv(t)' /\ RelevanceInv(t)'
    BY <1>1, <1>2 DEF TriggerInv, RelevanceInv, Pristine, Types, Events
<1>8. QED
    BY <1>3, <1>4, <1>5, <1>6, <1>7

LEMMA ApiCrashKeeps ==
  ASSUME IInv, ApiCrash
  PROVE  IInv'
<1> USE DeliveryEvents DEF IInv, ApiCrash, eventVars, jobVars, workerVars
<1>1. \A d \in Deliveries : delivery'[d] \in {"sent", "accepted", "duplicate", "lost"}
    BY DEF Types
<1>2. Types'
    BY <1>1 DEF Types
<1>3. \A d \in Deliveries : DeliveryInv(d)'
    BY <1>1 DEF DeliveryInv
<1>4. OneEnqueuer' /\ Untouched'
    BY <1>1 DEF OneEnqueuer, Untouched, Pristine
<1>5. \A t \in Triggers : TriggerInv(t)' /\ RelevanceInv(t)'
    BY DEF TriggerInv, RelevanceInv
<1>6. QED
    BY <1>2, <1>3, <1>4, <1>5

LEMMA StepIInv == IInv /\ [Next]_vars => IInv'
<1> SUFFICES ASSUME IInv, [Next]_vars PROVE IInv'
    OBVIOUS
<1>1. CASE TrackPullRequest \/ UNCHANGED vars
  <2>1. /\ UNCHANGED <<rows, apiVars, job, payload, worker, handler, tasks>>
        /\ tracked' \in {tracked, TRUE}
    BY <1>1 DEF TrackPullRequest, vars, eventVars, jobVars, workerVars
  <2>2. Types'
    BY <2>1 DEF IInv, Types, apiVars
  <2>3. QED
    BY <2>1, <2>2, WorkerStepKeeps
<1>2. CASE \E d \in Deliveries : RouteStep(d) \/ DeliveryFault(d)
    BY <1>2, RouteKeeps
<1>3. CASE \E q \in Requests : Ask(q)
    BY <1>3, AskKeeps
<1>4. CASE \E t \in Triggers : StartJob(t) \/ HandlerStep(t) \/ HandlerThrows(t)
    BY <1>4, HandlerKeeps
<1>5. CASE ApiCrash
    BY <1>5, ApiCrashKeeps
<1>6. CASE WorkerCrash \/ WorkerRestart
    BY <1>6, CrashKeeps
<1>7. QED
    BY <1>1, <1>2, <1>3, <1>4, <1>5, <1>6 DEF Next

LEMMA Invariance == Spec => []IInv
BY InitIInv, StepIInv, PTL DEF Spec

-----------------------------------------------------------------------------
\* A job that BullMQ does not hold has used no attempt, so a new one has all of them.
FreshAttempts == \A t \in Triggers : /\ job[t] = "none" => attempts[t] = 0
                                     /\ handler[t] # "idle" => job[t] = "active"

LEMMA AddJobKeeps ==
  ASSUME TypeOK, FreshAttempts, NEW t \in Triggers, NEW id \in Nat,
         AddJob(t, id), UNCHANGED handler
  PROVE  /\ job' \in [Triggers -> {"none", "waiting", "active", "failed"}]
         /\ payload' \in [Triggers -> Nat]
         /\ UNCHANGED <<attempts, stalls>>
         /\ \A u \in Triggers : job'[u] \in {"waiting", "active"} => attempts[u] < MaxAttempts
         /\ FreshAttempts'
<1> USE IntakeAssumption DEF TypeOK, FreshAttempts, AddJob
<1>1. CASE job[t] = "none"
  <2>1. /\ job' = [job EXCEPT ![t] = "waiting"] /\ payload' = [payload EXCEPT ![t] = id]
        /\ UNCHANGED <<attempts, stalls>>
    BY <1>1
  <2>2. attempts[t] < MaxAttempts
    BY <1>1
  <2>3. QED
    BY <2>1, <2>2, <1>1
<1>2. CASE job[t] # "none"
  BY <1>2 DEF jobVars
<1>3. QED
  BY <1>1, <1>2

LEMMA StepTypeOK == TypeOK /\ FreshAttempts /\ [Next]_vars => TypeOK' /\ FreshAttempts'
<1> SUFFICES ASSUME TypeOK, FreshAttempts, [Next]_vars PROVE TypeOK' /\ FreshAttempts'
    OBVIOUS
<1> USE IntakeAssumption, DeliveryEvents
        DEF TypeOK, FreshAttempts, eventVars, apiVars, jobVars, workerVars, boundVars
<1>1. ASSUME NEW d \in Deliveries, Receive(d) PROVE TypeOK' /\ FreshAttempts'
  <2>1. Types
    BY DEF Types
  <2>2. IsRelevant(d) \in BOOLEAN
    BY <2>1, VerdictIsBoolean
  <2>3. rows' \in [Events -> Seq(BOOLEAN)] /\ row' \in [Deliveries -> Nat]
    <3>1. Append(rows[EventOf(d)], IsRelevant(d)) \in Seq(BOOLEAN) /\ Len(rows[EventOf(d)]) \in Nat
      BY <2>2
    <3>2. CASE UNCHANGED <<rows, row>>
      BY <3>2
    <3>3. CASE /\ rows' = [rows EXCEPT ![EventOf(d)] = Append(rows[EventOf(d)], IsRelevant(d))]
               /\ row' = [row EXCEPT ![d] = Len(rows[EventOf(d)]) + 1]
      <4>1. Len(rows[EventOf(d)]) + 1 \in Nat
        BY <3>1
      <4>2. QED
        BY <3>1, <3>3, <4>1
    <3>4. QED
      BY <1>1, <3>2, <3>3 DEF Receive
  <2>4. delivery' \in [Deliveries -> {"sent", "recorded", "accepted", "duplicate", "lost"}]
    <3>1. \/ delivery' = [delivery EXCEPT ![d] = IF IsRelevant(d) THEN "recorded" ELSE "accepted"]
          \/ delivery' = [delivery EXCEPT ![d] = "duplicate"]
      BY <1>1 DEF Receive
    <3>2. QED
      BY <3>1
  <2>5. QED
    BY <1>1, <2>3, <2>4 DEF Receive
<1>2. ASSUME NEW d \in Deliveries, Enqueue(d) PROVE TypeOK' /\ FreshAttempts'
  <2>1. EventOf(d) \in Triggers /\ row[d] \in Nat /\ AddJob(EventOf(d), row[d]) /\ UNCHANGED handler
    BY <1>2 DEF Enqueue
  <2>2. delivery' \in [Deliveries -> {"sent", "recorded", "accepted", "duplicate", "lost"}]
    BY <1>2 DEF Enqueue
  <2>3. QED
    BY <1>2, <2>1, <2>2, AddJobKeeps DEF Enqueue
<1>3. ASSUME NEW d \in Deliveries, DeliveryFault(d) PROVE TypeOK' /\ FreshAttempts'
  BY SMTT(20), <1>3 DEF DeliveryFault
<1>4. ASSUME NEW q \in Requests, Ask(q) PROVE TypeOK' /\ FreshAttempts'
  <2>1. q \in Triggers /\ 1 \in Nat /\ AddJob(q, 1) /\ UNCHANGED handler
    BY <1>4 DEF Ask, Triggers
  <2>2. QED
    BY <1>4, <2>1, AddJobKeeps DEF Ask
<1>5. ASSUME NEW t \in Triggers, StartJob(t) PROVE TypeOK' /\ FreshAttempts'
  BY <1>5 DEF StartJob
<1>6. ASSUME NEW t \in Triggers, HandlerStep(t) PROVE TypeOK' /\ FreshAttempts'
  <2>1. CASE LookUpTask(t)
    BY <2>1 DEF LookUpTask
  <2>2. CASE CreateTask(t)
    <3>1. Append(tasks[t], payload[t]) \in Seq(Nat)
      OBVIOUS
    <3>2. QED
      BY <2>2, <3>1 DEF CreateTask
  <2>3. CASE RunTask(t)
    BY <2>3 DEF RunTask
  <2>4. CASE FinishJob(t)
    BY <2>4 DEF FinishJob
  <2>5. QED
    BY <1>6, <2>1, <2>2, <2>3, <2>4 DEF HandlerStep
<1>7. ASSUME NEW t \in Triggers, HandlerThrows(t) PROVE TypeOK' /\ FreshAttempts'
  <2>1. /\ job[t] = "active" /\ attempts[t] \in Nat /\ attempts[t] < MaxAttempts
        /\ faults \in 0..MaxFaults /\ faults < MaxFaults
    BY <1>7 DEF HandlerThrows
  <2>2. /\ attempts' \in [Triggers -> 0..MaxAttempts] /\ faults' \in 0..MaxFaults
        /\ attempts'[t] = attempts[t] + 1
    BY <1>7, <2>1 DEF HandlerThrows
  <2>3. /\ job' \in [Triggers -> {"none", "waiting", "active", "failed"}]
        /\ job'[t] = "waiting" => attempts[t] + 1 < MaxAttempts
        /\ job'[t] \in {"waiting", "failed"}
    BY <1>7, <2>1 DEF HandlerThrows, AttemptLeft
  <2>4. \A u \in Triggers \ {t} : job'[u] = job[u] /\ attempts'[u] = attempts[u] /\ handler'[u] = handler[u]
    BY <1>7 DEF HandlerThrows
  <2>5. QED
    BY <1>7, <2>2, <2>3, <2>4 DEF HandlerThrows
<1>8. CASE WorkerCrash
  BY <1>8 DEF WorkerCrash
<1>9. CASE ApiCrash
  BY SMTT(20), <1>9 DEF ApiCrash
<1>10. CASE TrackPullRequest \/ WorkerRestart \/ UNCHANGED vars
  BY <1>10 DEF TrackPullRequest, WorkerRestart, vars
<1>11. QED
  BY <1>1, <1>2, <1>3, <1>4, <1>5, <1>6, <1>7, <1>8, <1>9, <1>10 DEF Next, RouteStep

\* The state is what TypeOK says: a job that is to run, or runs, has an attempt left.
THEOREM TypeCorrect == Spec => []TypeOK
<1>1. Init => TypeOK /\ FreshAttempts
  <2> SUFFICES ASSUME Init PROVE TypeOK /\ FreshAttempts
    OBVIOUS
  <2> USE IntakeAssumption DEF Init
  <2>1. rows \in [Events -> Seq(BOOLEAN)] /\ tasks \in [Triggers -> Seq(Nat)]
    <3>1. <<>> \in Seq(BOOLEAN) /\ <<>> \in Seq(Nat)
      OBVIOUS
    <3>2. QED
      BY <3>1
  <2>2. row \in [Deliveries -> Nat] /\ payload \in [Triggers -> Nat] /\ asked \subseteq Requests
    OBVIOUS
  <2>3. /\ attempts \in [Triggers -> 0..MaxAttempts] /\ stalls \in [Triggers -> 0..MaxStalls]
        /\ crashes \in 0..MaxCrashes /\ faults \in 0..MaxFaults
    OBVIOUS
  <2>4. /\ delivery \in [Deliveries -> {"sent", "recorded", "accepted", "duplicate", "lost"}]
        /\ job \in [Triggers -> {"none", "waiting", "active", "failed"}]
        /\ handler \in [Triggers -> {"idle", "lookup", "create", "run", "return"}]
        /\ tracked \in BOOLEAN /\ worker \in {"up", "down"}
    OBVIOUS
  <2>5. \A t \in Triggers : job[t] = "none" /\ attempts[t] = 0 /\ handler[t] = "idle"
    OBVIOUS
  <2>6. QED
    BY <2>1, <2>2, <2>3, <2>4, <2>5, Zenon DEF TypeOK, FreshAttempts
<1>2. QED
  BY <1>1, StepTypeOK, PTL DEF Spec

\* No event or request ever has two tasks, whatever is delivered twice, retried or
\* taken up again after a crash: tasks[t] is <<>> or <<1>>.
THEOREM OneTask == Spec => []OneTaskPerTrigger
<1>1. IInv => OneTaskPerTrigger
  <2> SUFFICES ASSUME IInv, NEW t \in Triggers PROVE Len(tasks[t]) <= 1
      BY DEF OneTaskPerTrigger
  <2>1. tasks[t] = <<>> \/ tasks[t] = <<1>>
      BY DEF IInv, TriggerInv
  <2>2. CASE tasks[t] = <<>>
      BY <2>2
  <2>3. CASE tasks[t] = <<1>>
      BY <2>3
  <2>4. QED
      BY <2>1, <2>2, <2>3
<1>2. QED
  BY Invariance, <1>1, PTL

\* The changelog rule decides exactly what it is for: a change of an updated issue triggers
\* work if and only if the issue met no less than one condition more after it than before,
\* and an issue is created in the trigger status or it is not.
THEOREM EvaluateIsEntering ==
  ASSUME NEW c PROVE Evaluate(c) <=> EntersTrigger(c)
<1> DEFINE old == Change[c].before  new == Change[c].after
<1>1. CASE Change[c].created
  BY <1>1 DEF Evaluate, EntersTrigger, Conditions
<1>2. CASE ~Change[c].created
  <2>1. EntersTrigger(c) <=> \E x \in Conditions(new) : x \notin Conditions(old)
    BY <1>2 DEF EntersTrigger
  <2>2. \A f : /\ "status" \in Conditions(f) <=> f.status = TriggerStatus
               /\ "label" \in Conditions(f) <=> TriggerLabel \in f.labels
               /\ "assignee" \in Conditions(f) <=> f.assignee = AiAccount /\ AiAccount # Nobody
               /\ Conditions(f) \subseteq {"status", "label", "assignee"}
    BY DEF Conditions
  <2>3. /\ StatusReached(c) <=> "status" \in Conditions(new) /\ "status" \notin Conditions(old)
        /\ LabelAdded(c) <=> "label" \in Conditions(new) /\ "label" \notin Conditions(old)
        /\ AssignedToAi(c) <=> "assignee" \in Conditions(new) /\ "assignee" \notin Conditions(old)
    BY <2>2 DEF StatusReached, LabelAdded, AssignedToAi, Altered
  <2>4. QED
    BY <1>2, <2>1, <2>2, <2>3 DEF Evaluate
<1>3. QED
  BY <1>1, <1>2

\* Only changes that make an issue of ours meet a trigger condition become tasks; a GitHub
\* event never does.
THEOREM OnlyTriggers == Spec => []OnlyTriggersBecomeTasks
<1>1. IInv => OnlyTriggersBecomeTasks
  <2> SUFFICES ASSUME IInv, NEW e \in Events, tasks[e] # <<>>
               PROVE  \E c \in JiraChanges : /\ SourceEventId(c) = e
                                             /\ Change[c].issue \in OurIssues /\ EntersTrigger(c)
      BY DEF OnlyTriggersBecomeTasks
  <2>1. e \in Relevant
      BY DEF IInv, RelevanceInv, Events, Triggers
  <2>2. PICK c \in JiraChanges : SourceEventId(c) = e /\ TriggersWork(c)
      BY <2>1 DEF Relevant
  <2>3. QED
      BY <2>2, EvaluateIsEntering DEF TriggersWork
<1>2. QED
  BY Invariance, <1>1, PTL

\* No job is added for an event that has its task.
NoJobForFinishedEvent ==
    [][\A t \in Triggers : job[t] = "none" /\ job'[t] = "waiting" => tasks[t] = <<>>]_vars

\* A late copy of an event is never queued again once the event has its task: BullMQ has
\* forgotten the job id, but the delivery that could enqueue is the one whose row is new.
THEOREM NoSecondJob == Spec => NoJobForFinishedEvent
<1> DEFINE Fresh == \A t \in Triggers : job[t] = "none" /\ job'[t] = "waiting" => tasks[t] = <<>>
<1>1. IInv /\ [Next]_vars => [Fresh]_vars
  <2> SUFFICES ASSUME IInv, Next, NEW t \in Triggers, job[t] = "none", job'[t] = "waiting"
               PROVE  tasks[t] = <<>>
      OBVIOUS
  <2> USE DEF IInv
  <2>1. CASE \E d \in Deliveries : Enqueue(d)
    <3>1. PICK d \in Deliveries : Enqueue(d)
      BY <2>1
    <3>2. t = EventOf(d)
      BY <3>1, DeliveryEvents DEF Enqueue, AddJob, jobVars, Types
    <3>3. QED
      BY <3>1, <3>2 DEF Enqueue, DeliveryInv, Pristine
  <2>2. CASE \E q \in Requests : Ask(q)
    <3>1. PICK q \in Requests : Ask(q)
      BY <2>2
    <3>2. t = q
      BY <3>1 DEF Ask, AddJob, jobVars, Types
    <3>3. QED
      BY <3>1, <3>2 DEF Ask, Untouched, Pristine
  <2>3. CASE \E u \in Triggers : StartJob(u) \/ HandlerStep(u) \/ HandlerThrows(u)
    <3>1. PICK u \in Triggers : StartJob(u) \/ HandlerStep(u) \/ HandlerThrows(u)
      BY <2>3
    <3>2. job[u] # "none" /\ u # t
      BY <3>1 DEF StartJob, HandlerStep, LookUpTask, CreateTask, RunTask, FinishJob,
                  HandlerThrows, TriggerInv
    <3>3. job'[t] = job[t]
      BY <3>1, <3>2 DEF StartJob, HandlerStep, LookUpTask, CreateTask, RunTask, FinishJob,
                        HandlerThrows, jobVars, Types
    <3>4. QED
      BY <3>3
  <2>4. CASE WorkerCrash
    BY <2>4 DEF WorkerCrash
  <2>5. CASE \/ \E d \in Deliveries : Receive(d) \/ DeliveryFault(d)
             \/ TrackPullRequest \/ ApiCrash \/ WorkerRestart
    BY <2>5 DEF Receive, DeliveryFault, TrackPullRequest, ApiCrash, WorkerRestart, jobVars
  <2>6. QED
    BY <2>1, <2>2, <2>3, <2>4, <2>5 DEF Next, RouteStep
<1>2. QED
  BY Invariance, <1>1, PTL DEF Spec, NoJobForFinishedEvent

-----------------------------------------------------------------------------
(* EventIntake implements Intake: copies, retries and crashes are stutters. *)

\* A handler past CreateTask() has a task, and a delivery about to enqueue its event has
\* recorded it as relevant.
HasTask(t) == handler[t] \in {"run", "return"} => tasks[t] # <<>>
RelevantRow(e) == \E i \in 1..Len(rows[e]) : rows[e][i]
Held(e) == \E d \in Deliveries : EventOf(d) = e /\ delivery[d] = "recorded"

StageInv == /\ \A t \in Intended : HasTask(t)
            /\ \A d \in Deliveries : delivery[d] = "recorded" => RelevantRow(EventOf(d))

LEMMA IntendedTriggers == /\ Intended \subseteq Triggers /\ Intended \cap GitHubEvents = {}
                          /\ \A t \in Intended : t \in Events => t \notin Requests
                          /\ \A t \in Triggers : t \in Intended \/ t \in GitHubEvents
                          /\ Relevant \cup Requests = Wanted /\ Wanted \subseteq Intended
<1>1. Relevant \cup Requests = Wanted
  BY EvaluateIsEntering DEF Relevant, Wanted, TriggersWork
<1>2. QED
  BY <1>1, RelevantEvents, IntakeAssumption DEF Intended, Triggers, Events

\* What Stage says, case by case, now and in the next state.
Stages ==
    \A t \in Triggers :
        /\ tasks[t] # <<>> /\ job[t] = "none" => Stage(t) = "done"
        /\ tasks[t] # <<>> /\ job[t] # "none" => Stage(t) = "working"
        /\ tasks[t] = <<>> /\ job[t] = "failed" => Stage(t) = "failed"
        /\ tasks[t] = <<>> /\ job[t] \in {"waiting", "active"} => Stage(t) = "queued"
        /\ Pristine(t) /\ Held(t) => Stage(t) = "accepted"
        /\ Pristine(t) /\ ~Held(t) /\ t \in Events /\ RelevantRow(t) => Stage(t) = "lost"
        /\ Pristine(t) /\ ~Held(t) /\ ~(t \in Events /\ RelevantRow(t)) => Stage(t) = "new"

LEMMA StageIs == Stages /\ Stages'
<1>1. Stages
  BY DEF Stages, Stage, Pristine, Held, RelevantRow
<1>2. Stages'
  BY DEF Stages, Stage, Pristine, Held, RelevantRow
<1>3. QED
  BY <1>1, <1>2

LEMMA InitStageInv == Init => StageInv
BY DeliveryEvents, IntendedTriggers DEF Init, StageInv, HasTask

LEMMA StepStageInv ==
  ASSUME IInv, IInv', StageInv, [Next]_vars PROVE StageInv'
<1> USE DEF IInv, Types, StageInv, HasTask, RelevantRow, eventVars, apiVars, jobVars, workerVars
<1> USE IntendedTriggers, DeliveryEvents
<1>1. ASSUME NEW d \in Deliveries, Receive(d) PROVE StageInv'
  <2> DEFINE e == EventOf(d)
  <2>1. UNCHANGED <<handler, tasks>> /\ e \in Events
    BY <1>1 DEF Receive
  <2>2. CASE UNCHANGED rows
    <3>1. \A c \in Deliveries : delivery'[c] = "recorded" => delivery[c] = "recorded"
      BY <1>1, <2>2 DEF Receive, IsNew
    <3>2. QED
      BY <2>1, <2>2, <3>1
  <2>3. CASE rows' = [rows EXCEPT ![e] = Append(@, IsRelevant(d))] /\ rows[e] = <<>>
    <3>1. /\ delivery' = [delivery EXCEPT ![d] = IF IsRelevant(d) THEN "recorded" ELSE "accepted"]
      BY <1>1, <2>3 DEF Receive, IsNew
    <3>2. rows'[e] = <<IsRelevant(d)>> /\ \A u \in Events \ {e} : rows'[u] = rows[u]
      <4>1. IsRelevant(d) \in BOOLEAN
        BY VerdictIsBoolean
      <4>2. rows'[e] = Append(<<>>, IsRelevant(d))
        BY <2>1, <2>3
      <4>3. Append(<<>>, IsRelevant(d)) = <<IsRelevant(d)>>
        BY <4>1
      <4>4. QED
        BY <2>1, <2>3, <4>2, <4>3
    <3>3. \A c \in Deliveries : delivery[c] = "recorded" => EventOf(c) # e
      BY <2>3 DEF DeliveryInv
    <3>4. IsRelevant(d) => \E i \in 1..Len(rows'[e]) : rows'[e][i]
      <4>1. Len(<<IsRelevant(d)>>) = 1 /\ <<IsRelevant(d)>>[1] = IsRelevant(d) /\ 1 \in 1..1
        OBVIOUS
      <4>2. QED
        BY <3>2, <4>1
    <3>5. \A c \in Deliveries : delivery'[c] = "recorded" => RelevantRow(EventOf(c))'
      BY <3>1, <3>2, <3>3, <3>4
    <3>6. QED
      BY <2>1, <3>5
  <2>4. QED
    BY <1>1, <2>2, <2>3 DEF Receive, IsNew
<1>2. ASSUME NEW d \in Deliveries, Enqueue(d) \/ DeliveryFault(d) PROVE StageInv'
  BY <1>2 DEF Enqueue, DeliveryFault
<1>3. ASSUME NEW t \in Triggers, StartJob(t) \/ HandlerStep(t) \/ HandlerThrows(t) PROVE StageInv'
  <2>1. UNCHANGED <<rows, delivery>>
    BY <1>3 DEF StartJob, HandlerStep, LookUpTask, CreateTask, RunTask, FinishJob, HandlerThrows
  <2>2. \A u \in Triggers \ {t} : UNCHANGED <<handler[u], tasks[u]>>
    BY <1>3 DEF StartJob, HandlerStep, LookUpTask, CreateTask, RunTask, FinishJob, HandlerThrows
  <2>3. t \in Intended => HasTask(t)'
    <3>1. CASE CreateTask(t)
      <4>1. tasks[t] = <<>> /\ payload[t] \in Nat
        BY <3>1 DEF CreateTask, TriggerInv
      <4>2. tasks'[t] = Append(tasks[t], payload[t])
        BY <3>1 DEF CreateTask
      <4>3. Append(<<>>, payload[t]) # <<>>
        BY <4>1
      <4>4. QED
        BY <4>1, <4>2, <4>3
    <3>2. CASE LookUpTask(t)
      <4>1. AlreadyProduced(t) => tasks[t] # <<>>
        BY DEF AlreadyProduced
      <4>2. QED
        BY <3>2, <4>1 DEF LookUpTask
    <3>3. CASE StartJob(t) \/ RunTask(t) \/ FinishJob(t) \/ HandlerThrows(t)
      BY <3>3 DEF StartJob, RunTask, FinishJob, HandlerThrows
    <3>4. QED
      BY <1>3, <3>1, <3>2, <3>3 DEF HandlerStep
  <2>4. QED
    BY ZenonT(40), <2>1, <2>2, <2>3
<1>4. CASE \/ \E q \in Requests : Ask(q)
           \/ TrackPullRequest \/ ApiCrash \/ WorkerCrash \/ WorkerRestart \/ UNCHANGED vars
  <2>1. \A d \in Deliveries : delivery'[d] = "recorded" => delivery[d] = "recorded"
    BY <1>4 DEF Ask, TrackPullRequest, ApiCrash, WorkerCrash, WorkerRestart, vars
  <2>2. \A t \in Triggers : handler'[t] \in {handler[t], "idle"}
    BY <1>4 DEF Ask, TrackPullRequest, ApiCrash, WorkerCrash, WorkerRestart, vars
  <2>3. UNCHANGED <<rows, tasks>>
    BY <1>4 DEF Ask, TrackPullRequest, ApiCrash, WorkerCrash, WorkerRestart, vars
  <2>4. QED
    BY <2>1, <2>2, <2>3
<1>5. QED
  BY <1>1, <1>2, <1>3, <1>4 DEF Next, RouteStep

\* One trigger changes its stage, or none does.
LEMMA OneMoves ==
  ASSUME NEW t \in Intended, NEW from, NEW to, Stage(t) = from, Stage(t)' = to,
         \A u \in Intended \ {t} : Stage(u)' = Stage(u)
  PROVE  I!Move(t, from, to)
BY DEF I!Move, Intended, JiraEvents

LEMMA NoneMoves ==
  ASSUME \A u \in Intended : Stage(u)' = Stage(u), UNCHANGED tasks
  PROVE  UNCHANGED I!vars
BY DEF I!vars, Intended, JiraEvents

\* Some triggers move from one stage to another, and the others stay.
LEMMA SomeMove ==
  ASSUME NEW from, NEW to, UNCHANGED tasks,
         \A t \in Intended : Stage(t)' = Stage(t) \/ (Stage(t) = from /\ Stage(t)' = to)
  PROVE  I!MoveAny(from, to)
<1> DEFINE S == {t \in Intended : Stage(t) = from /\ Stage(t)' = to}
           stage == [t \in Intended |-> Stage(t)]
           made == [t \in Intended |-> Len(tasks[t])]
<1>1. S \in SUBSET {t \in Intended : stage[t] = from}
  OBVIOUS
<1>2. stage' = [t \in Intended |-> IF t \in S THEN to ELSE stage[t]]
  BY DEF Intended, JiraEvents
<1>3. UNCHANGED made
  BY DEF Intended, JiraEvents
<1>4. QED
  BY <1>1, <1>2, <1>3 DEF I!MoveAny

\* A trigger whose job, tasks and delivery are left alone stays where it is.
LEMMA StageFrame ==
  ASSUME IInv, IInv', NEW t \in Intended,
         UNCHANGED <<job[t], tasks[t]>>,
         Held(t)' = Held(t), t \in Events => rows'[t] = rows[t]
  PROVE  Stage(t)' = Stage(t)
BY DEF Stage, Held

LEMMA ReceiveRefines ==
  ASSUME IInv, IInv', StageInv, StageInv', NEW d \in Deliveries, Receive(d)
  PROVE  [I!Next]_(I!vars)
<1> DEFINE e == EventOf(d)
<1> USE IntendedTriggers, DeliveryEvents, StageIs DEF IInv, Receive, IsNew, jobVars, workerVars
<1>1. UNCHANGED <<job, tasks>> /\ e \in Events
  OBVIOUS
<1>2. \A t \in Intended : t \in Events /\ t # e => rows'[t] = rows[t]
  BY DEF Types
<1>3. ASSUME UNCHANGED rows, \A c \in Deliveries : delivery'[c] = "recorded" <=> delivery[c] = "recorded"
      PROVE  [I!Next]_(I!vars)
  <2>1. \A t \in Intended : Held(t)' = Held(t)
    BY <1>3 DEF Held
  <2>2. \A t \in Intended : Stage(t)' = Stage(t)
    BY <1>1, <1>3, <2>1, StageFrame
  <2>3. QED
    BY <1>1, <2>2, NoneMoves
<1>4. CASE rows[e] # <<>>
  BY <1>3, <1>4 DEF Types
<1>5. CASE rows[e] = <<>>
  <2>1. /\ rows'[e] = Append(<<>>, IsRelevant(d)) /\ IsRelevant(d) \in BOOLEAN
        /\ delivery' = [delivery EXCEPT ![d] = IF IsRelevant(d) THEN "recorded" ELSE "accepted"]
    BY <1>5, VerdictIsBoolean DEF Types
  <2>2. rows'[e] = <<IsRelevant(d)>> /\ Len(rows'[e]) = 1 /\ rows'[e][1] = IsRelevant(d)
    BY <2>1
  <2>3. Pristine(e) /\ ~Held(e) /\ ~RelevantRow(e) /\ \A t \in Intended \ {e} : Held(t)' = Held(t)
    BY <1>5, <2>1 DEF Untouched, DeliveryInv, Held, RelevantRow, Types
  <2>4. \A t \in Intended \ {e} : Stage(t)' = Stage(t)
    BY <1>1, <1>2, <2>3, StageFrame
  <2>5. Stage(e) = "new"
    BY <2>3 DEF Stages
  <2>6. CASE IsRelevant(d) /\ e \in Intended
    <3>1. e \in Wanted \ Requests
      BY <2>6, RelevantDelivery, IntakeAssumption DEF Events
    <3>2. Held(e)' /\ Pristine(e)'
      BY <1>1, <2>1, <2>3, <2>6 DEF Held, Pristine, Types
    <3>3. Stage(e)' = "accepted"
      BY <3>2, <1>1 DEF Stages
    <3>4. I!Move(e, "new", "accepted")
      BY <2>4, <2>5, <2>6, <3>3, OneMoves
    <3>5. UNCHANGED [t \in Intended |-> Len(tasks[t])]
      BY <1>1 DEF Intended, JiraEvents
    <3>6. I!Accept(e)
      BY <3>1, <3>4, <3>5 DEF I!Accept
    <3>7. QED
      BY <2>6, <3>6 DEF I!Next
  <2>7. CASE ~IsRelevant(d) /\ e \in Intended
    <3>1. ~Held(e)' /\ Pristine(e)' /\ ~RelevantRow(e)'
      BY <1>1, <2>1, <2>2, <2>3, <2>7 DEF Held, Pristine, RelevantRow, Types
    <3>2. Stage(e)' = "new"
      BY <3>1, <1>1 DEF Stages
    <3>3. QED
      BY <1>1, <2>4, <2>5, <3>2, NoneMoves
  <2>8. CASE e \notin Intended
    BY <1>1, <2>4, <2>8, NoneMoves
  <2>9. QED
    BY <2>1, <2>6, <2>7, <2>8
<1>6. QED
  BY <1>4, <1>5

\* A delivery's job is added, or never will be.
LEMMA EnqueueRefines ==
  ASSUME IInv, IInv', StageInv, StageInv', NEW d \in Deliveries, Enqueue(d) \/ DeliveryFault(d)
  PROVE  [I!Next]_(I!vars)
<1> DEFINE e == EventOf(d)
<1> USE IntendedTriggers, DeliveryEvents, StageIs DEF IInv, jobVars, eventVars, workerVars
<1>1. UNCHANGED <<rows, tasks>> /\ e \in Events /\ Pristine(e) /\ Held(e) /\ delivery'[d] # "recorded"
  BY DEF Enqueue, DeliveryFault, DeliveryInv, Held, Types
<1>2. \A c \in Deliveries \ {d} : delivery'[c] = delivery[c]
  BY DEF Enqueue, DeliveryFault, Types
<1>3. ~Held(e)' /\ \A t \in Intended \ {e} : Held(t)' = Held(t)
  BY <1>1, <1>2 DEF Held, OneEnqueuer, Enqueue, DeliveryFault
<1>4. \A t \in Intended \ {e} : job'[t] = job[t]
  BY DEF Enqueue, DeliveryFault, AddJob, Types
<1>5. \A t \in Intended \ {e} : Stage(t)' = Stage(t)
  BY <1>1, <1>3, <1>4, StageFrame
<1>6. CASE e \notin Intended
  BY <1>1, <1>5, <1>6, NoneMoves
<1>7. CASE e \in Intended /\ Enqueue(d)
  <2>1. job'[e] = "waiting" /\ tasks'[e] = <<>>
    BY <1>1, <1>7 DEF Enqueue, AddJob, Pristine, Types
  <2>2. Stage(e) = "accepted" /\ Stage(e)' = "queued"
    BY <1>1, <2>1 DEF Stages
  <2>3. UNCHANGED [t \in Intended |-> Len(tasks[t])]
    BY <1>1 DEF Intended, JiraEvents
  <2>4. I!Queue(e)
    BY <1>5, <1>7, <2>2, <2>3, OneMoves DEF I!Queue
  <2>5. QED
    BY <1>7, <2>4 DEF I!Next
<1>8. CASE e \in Intended /\ DeliveryFault(d)
  <2>1. Pristine(e)' /\ RelevantRow(e)'
    BY <1>1, <1>8 DEF DeliveryFault, Pristine, StageInv, RelevantRow, Held
  <2>2. Stage(e) = "accepted" /\ Stage(e)' = "lost"
    BY <1>1, <1>3, <2>1 DEF Stages
  <2>3. I!MoveAny("accepted", "lost")
    BY <1>1, <1>5, <2>2, SomeMove
  <2>4. QED
    BY <2>3 DEF I!Next
<1>9. QED
  BY <1>6, <1>7, <1>8

LEMMA AskRefines ==
  ASSUME IInv, IInv', NEW q \in Requests, Ask(q)
  PROVE  [I!Next]_(I!vars)
<1> USE IntendedTriggers, StageIs DEF IInv, Ask, eventVars, workerVars
<1>1. UNCHANGED <<rows, delivery, tasks>> /\ q \in Intended /\ q \notin Events /\ Pristine(q)
  BY IntakeAssumption DEF Untouched, Intended, Events
<1>2. job' = [job EXCEPT ![q] = "waiting"]
  BY <1>1 DEF AddJob, Pristine
<1>3. \A t \in Intended \ {q} : job'[t] = job[t] /\ Held(t)' = Held(t)
  BY <1>1, <1>2 DEF Held, Types
<1>4. \A t \in Intended \ {q} : Stage(t)' = Stage(t)
  BY <1>1, <1>3, StageFrame
<1>5. ~Held(q)
  BY <1>1, DeliveryEvents DEF Held
<1>6. Stage(q) = "new" /\ Stage(q)' = "queued"
  BY <1>1, <1>2, <1>5 DEF Stages, Pristine, Types
<1>7. UNCHANGED [t \in Intended |-> Len(tasks[t])]
  BY <1>1 DEF Intended, JiraEvents
<1>8. I!Ask(q)
  BY <1>1, <1>4, <1>6, <1>7, OneMoves DEF I!Ask, Wanted
<1>9. QED
  BY <1>1, <1>8 DEF I!Next

\* A job's handler goes on, ends or throws.
LEMMA HandlerRefines ==
  ASSUME IInv, IInv', StageInv, NEW t \in Triggers,
         StartJob(t) \/ HandlerStep(t) \/ HandlerThrows(t)
  PROVE  [I!Next]_(I!vars)
<1> USE IntendedTriggers, StageIs DEF IInv, HandlerStep, eventVars, apiVars, jobVars
<1>1. UNCHANGED <<rows, delivery>>
  BY DEF StartJob, LookUpTask, CreateTask, RunTask, FinishJob, HandlerThrows
<1>2. \A u \in Intended \ {t} : UNCHANGED <<job[u], tasks[u]>>
  BY SMTT(20) DEF StartJob, LookUpTask, CreateTask, RunTask, FinishJob, HandlerThrows, Types
<1>3. \A u \in Intended \ {t} : Stage(u)' = Stage(u)
  BY <1>1, <1>2, StageFrame DEF Held
<1>4. CASE Stage(t)' = Stage(t) /\ UNCHANGED tasks
  BY <1>3, <1>4, NoneMoves
<1>5. CASE t \notin Intended
  <2>1. UNCHANGED tasks
    BY <1>5 DEF StartJob, LookUpTask, CreateTask, RunTask, FinishJob, HandlerThrows, RelevanceInv
  <2>2. QED
    BY <1>3, <1>5, <2>1, NoneMoves
<1>6. CASE t \in Intended /\ CreateTask(t)
  <2>1. tasks[t] = <<>> /\ job[t] = "active" /\ job'[t] = "active"
    BY <1>6 DEF CreateTask, TriggerInv
  <2>2. payload[t] = 1 /\ tasks' = [tasks EXCEPT ![t] = Append(tasks[t], payload[t])]
    BY <1>6, <2>1 DEF CreateTask, TriggerInv
  <2>3. Append(<<>>, 1) = <<1>> /\ Len(<<1>>) = 1 /\ <<1>> # <<>>
    OBVIOUS
  <2>4. tasks' = [tasks EXCEPT ![t] = <<1>>] /\ tasks'[t] = <<1>>
    BY <2>1, <2>2, <2>3 DEF Types
  <2>5. Stage(t) = "queued" /\ Stage(t)' = "working"
    BY <2>1, <2>3, <2>4 DEF Stages
  <2>6. I!Move(t, "queued", "working")
    BY <1>3, <1>6, <2>5, OneMoves
  <2> DEFINE made == [u \in Intended |-> Len(tasks[u])]
  <2>7. made[t] = 0 /\ made' = [made EXCEPT ![t] = 1]
    BY <1>6, <2>1, <2>3, <2>4 DEF Types, Intended, JiraEvents
  <2>8. I!MakeTask(t)
    BY <2>6, <2>7 DEF I!MakeTask
  <2>9. QED
    BY <1>6, <2>8 DEF I!Next
<1>7. CASE t \in Intended /\ FinishJob(t)
  <2>1. tasks[t] # <<>> /\ job[t] # "none" /\ job'[t] = "none" /\ UNCHANGED tasks
    <3>1. handler[t] = "return" /\ job' = [job EXCEPT ![t] = "none"] /\ UNCHANGED tasks
      BY <1>7 DEF FinishJob
    <3>2. HasTask(t) /\ TriggerInv(t) /\ job \in [Triggers -> {"none", "waiting", "active", "failed"}]
      BY <1>7 DEF StageInv, Types
    <3>3. QED
      BY <3>1, <3>2 DEF HasTask, TriggerInv
  <2>2. Stage(t) = "working" /\ Stage(t)' = "done"
    BY <2>1 DEF Stages
  <2>3. UNCHANGED [u \in Intended |-> Len(tasks[u])]
    BY <2>1 DEF Intended, JiraEvents
  <2>4. I!Finish(t)
    BY <1>3, <1>7, <2>2, <2>3, OneMoves DEF I!Finish
  <2>5. QED
    BY <1>7, <2>4 DEF I!Next
<1>8. CASE t \in Intended /\ HandlerThrows(t)
  <2>1. job[t] = "active" /\ job'[t] \in {"waiting", "failed"} /\ UNCHANGED tasks
    BY <1>8 DEF HandlerThrows, TriggerInv, Types
  <2>2. CASE tasks[t] = <<>> /\ job'[t] = "failed"
    <3>1. Stage(t) = "queued" /\ Stage(t)' = "failed"
      BY <2>1, <2>2 DEF Stages
    <3>2. I!MoveAny("queued", "failed")
      BY <1>3, <2>1, <3>1, SomeMove
    <3>3. QED
      BY <3>2 DEF I!Next
  <2>3. CASE tasks[t] # <<>> \/ job'[t] = "waiting"
    <3>1. Stage(t)' = Stage(t)
      BY <2>1, <2>3 DEF Stages
    <3>2. QED
      BY <1>4, <2>1, <3>1
  <2>4. QED
    BY <2>1, <2>2, <2>3
<1>9. CASE t \in Intended /\ (StartJob(t) \/ LookUpTask(t) \/ RunTask(t))
  <2>1. /\ job[t] \in {"waiting", "active"} /\ job'[t] = "active" /\ UNCHANGED tasks
    BY <1>9 DEF StartJob, LookUpTask, RunTask, TriggerInv, Types
  <2>2. Stage(t)' = Stage(t)
    BY <2>1 DEF Stages
  <2>3. QED
    BY <1>4, <2>1, <2>2
<1>10. QED
  BY <1>5, <1>6, <1>7, <1>8, <1>9

\* Processes die and come back, and a pull request is recorded.
LEMMA CrashRefines ==
  ASSUME IInv, IInv', StageInv, StageInv',
         ApiCrash \/ WorkerCrash \/ WorkerRestart \/ TrackPullRequest \/ UNCHANGED vars
  PROVE  [I!Next]_(I!vars)
<1> USE IntendedTriggers, StageIs DEF IInv, eventVars, apiVars, jobVars, workerVars
<1>1. CASE ApiCrash
  <2>1. UNCHANGED <<rows, job, tasks>> /\ \A t \in Intended : ~Held(t)'
    BY <1>1 DEF ApiCrash, Held
  <2>2. ASSUME NEW t \in Intended, Held(t) PROVE Stage(t) = "accepted" /\ Stage(t)' = "lost"
    <3>1. Pristine(t) /\ RelevantRow(t) /\ t \in Events
      BY <2>2, DeliveryEvents DEF Held, DeliveryInv, StageInv
    <3>2. Pristine(t)' /\ RelevantRow(t)'
      BY <2>1, <3>1 DEF Pristine, RelevantRow
    <3>3. QED
      BY <2>1, <2>2, <3>1, <3>2 DEF Stages
  <2>3. ASSUME NEW t \in Intended, ~Held(t) PROVE Stage(t)' = Stage(t)
    <3>1. Held(t)' = Held(t)
      BY <2>1, <2>3 DEF Held
    <3>2. UNCHANGED <<job[t], tasks[t]>> /\ (t \in Events => rows'[t] = rows[t])
      BY <2>1
    <3>3. QED
      BY <3>1, <3>2, StageFrame
  <2>4. I!MoveAny("accepted", "lost")
    BY <2>1, <2>2, <2>3, SomeMove
  <2>5. QED
    BY <2>4 DEF I!Next
<1>2. CASE WorkerCrash
  <2>1. UNCHANGED <<rows, delivery, tasks>> /\ \A t \in Triggers : Held(t)' = Held(t)
    BY <1>2 DEF WorkerCrash, Held
  <2>2. \A t \in Triggers : \/ job'[t] = job[t]
                            \/ job[t] = "active" /\ job'[t] \in {"waiting", "failed"}
    BY <1>2 DEF WorkerCrash, Types
  <2>3. ASSUME NEW t \in Intended
        PROVE  Stage(t)' = Stage(t) \/ (Stage(t) = "queued" /\ Stage(t)' = "failed")
    <3>1. CASE job'[t] = job[t]
      BY <2>1, <3>1, StageFrame
    <3>2. CASE job[t] = "active" /\ job'[t] \in {"waiting", "failed"}
      BY <2>1, <3>2 DEF Stages
    <3>3. QED
      BY <2>2, <3>1, <3>2
  <2>4. I!MoveAny("queued", "failed")
    BY <2>1, <2>3, SomeMove
  <2>5. QED
    BY <2>4 DEF I!Next
<1>3. CASE WorkerRestart \/ TrackPullRequest \/ UNCHANGED vars
  <2>1. UNCHANGED <<rows, delivery, job, tasks>> /\ \A t \in Triggers : Held(t)' = Held(t)
    BY <1>3 DEF WorkerRestart, TrackPullRequest, vars, Held
  <2>2. \A t \in Intended : Stage(t)' = Stage(t)
    BY <2>1, StageFrame
  <2>3. QED
    BY <2>1, <2>2, NoneMoves
<1>4. QED
  BY <1>1, <1>2, <1>3

LEMMA InitRefines == Init => I!Init
<1> SUFFICES ASSUME Init PROVE I!Init
  OBVIOUS
<1> USE IntendedTriggers, StageIs DEF Init
<1>1. \A t \in Intended : Pristine(t) /\ ~Held(t) /\ ~(t \in Events /\ RelevantRow(t))
  BY DEF Pristine, Held, RelevantRow
<1>2. \A t \in Intended : Stage(t) = "new" /\ Len(tasks[t]) = 0
  BY <1>1 DEF Stages
<1>3. QED
  BY <1>2 DEF I!Init

\* What happens between the senders and the tasks is, for every set of events, changes,
\* deliveries and bounds, what Intake describes without copies, retries and crashes.
THEOREM Refinement == Spec => ImplementsIntake
<1>1. IInv /\ IInv' /\ StageInv /\ StageInv' /\ [Next]_vars => [I!Next]_(I!vars)
  BY ReceiveRefines, EnqueueRefines, AskRefines, HandlerRefines, CrashRefines DEF Next, RouteStep
<1>2. IInv /\ IInv' /\ StageInv /\ [Next]_vars => StageInv'
  BY StepStageInv
<1>3. Spec => [](IInv /\ StageInv)
  BY Invariance, InitStageInv, <1>2, PTL DEF Spec
<1>4. QED
  BY InitRefines, <1>1, <1>3, PTL DEF Spec, ImplementsIntake, I!Spec
=============================================================================
