---------------------------- MODULE EventIntake ----------------------------
(***************************************************************************)
(* From an event to its task: the API's webhook routes and POST /tasks,    *)
(* the received_events rows, the agent-triggers queue and the worker's     *)
(* trigger handler up to runTask(), which TaskPipeline takes from there.   *)
(*                                                                         *)
(* A sender may deliver an event several times, and copies may be in       *)
(* progress together.  An event is its (source, sourceEventId) pair, which *)
(* is also its job id; two changes of an issue may share it.  Rows of one  *)
(* event are numbered, and the number is receivedEventId.                  *)
(***************************************************************************)
EXTENDS JiraTrigger, Naturals, Sequences, FiniteSets

CONSTANTS
    GitHubEvents,               \* webhook deliveries about a pull request
    Requests,                   \* POST /tasks requests
    Deliveries,                 \* <<change or GitHub event, copy>>: what the senders deliver
    MaxAttempts, MaxStalls,     \* of a BullMQ job
    Concurrency,                \* WORKER_CONCURRENCY
    MaxCrashes, MaxFaults       \* bounds: process crashes, awaits that reject

JiraEvents == {SourceEventId(c) : c \in JiraChanges}

ASSUME IntakeAssumption ==
    /\ GitHubEvents \cap JiraChanges = {} /\ GitHubEvents \cap JiraEvents = {}
    /\ Requests \cap (JiraEvents \cup GitHubEvents) = {}
    /\ Deliveries \subseteq (JiraChanges \cup GitHubEvents) \X Nat
    /\ MaxAttempts \in Nat \ {0}
    /\ MaxStalls \in Nat
    /\ Concurrency \in Nat \ {0}
    /\ MaxCrashes \in Nat
    /\ MaxFaults \in Nat

Events   == JiraEvents \cup GitHubEvents
Triggers == Events \cup Requests

\* The source and sourceEventId of a delivery.
EventOf(d) == IF d[1] \in GitHubEvents THEN d[1] ELSE SourceEventId(d[1])

VARIABLES
    tracked,             \* the GitHub events' pull request has a pull_requests row
    rows,                \* per event: isRelevant of its received_events rows
    delivery, row,       \* per delivery: its progress, the row it wrote
    asked,               \* requests that were made
    job, payload, attempts, stalls,  \* per trigger, kept by BullMQ
    worker, handler,     \* the worker is up; per job: the handler's next step
    tasks,               \* per trigger: receivedEventId of the tasks it produced
    crashes, faults      \* bound counters

eventVars  == <<tracked, rows>>
apiVars    == <<delivery, row, asked>>
jobVars    == <<job, payload, attempts, stalls>>
workerVars == <<worker, handler, tasks>>
boundVars  == <<crashes, faults>>
vars == <<eventVars, apiVars, jobVars, workerVars, boundVars>>

Init ==
    /\ tracked = FALSE
    /\ rows = [e \in Events |-> <<>>]
    /\ delivery = [d \in Deliveries |-> "sent"]
    /\ row = [d \in Deliveries |-> 0]
    /\ asked = {}
    /\ job = [t \in Triggers |-> "none"]
    /\ payload = [t \in Triggers |-> 0]
    /\ attempts = [t \in Triggers |-> 0] /\ stalls = [t \in Triggers |-> 0]
    /\ worker = "up"
    /\ handler = [t \in Triggers |-> "idle"]
    /\ tasks = [t \in Triggers |-> <<>>]
    /\ crashes = 0 /\ faults = 0

-----------------------------------------------------------------------------
(* The API                                                                 *)

\* mutant: the issue's state is looked at, not what has changed
StateIsRelevant(d) == IF d[1] \in GitHubEvents THEN tracked ELSE Conditions(Change[d[1]].after) # {}
IsRelevant(d) == IF d[1] \in GitHubEvents THEN tracked ELSE TriggersWork(d[1])

AlwaysNew(e) == TRUE                \* mutant: no unique (source, sourceEventId)
IsNew(e) == rows[e] = <<>>

\* The delivery arrives, its relevance is judged and createIfNew() records its event.  What
\* changes between the judgement and the insert, a pull request's first row, could as well
\* have come after both: nothing else reads it.  A fault before the insert leaves no trace,
\* and the sender may deliver again.
Receive(d) ==
    /\ delivery[d] = "sent"
    /\ \/ /\ IsNew(EventOf(d))
          /\ rows' = [rows EXCEPT ![EventOf(d)] = Append(@, IsRelevant(d))]
          /\ row' = [row EXCEPT ![d] = Len(rows[EventOf(d)]) + 1]
          /\ delivery' = [delivery EXCEPT ![d] = IF IsRelevant(d) THEN "recorded" ELSE "accepted"]
       \/ /\ ~IsNew(EventOf(d))
          /\ delivery' = [delivery EXCEPT ![d] = "duplicate"]
          /\ UNCHANGED <<rows, row>>
    /\ UNCHANGED <<tracked, asked, jobVars, workerVars, boundVars>>

\* BullMQ adds a job, unless one with that id is there, a failed one included.
AddJob(t, id) ==
    IF job[t] = "none"
    THEN /\ job' = [job EXCEPT ![t] = "waiting"]
         /\ payload' = [payload EXCEPT ![t] = id]
         /\ UNCHANGED <<attempts, stalls>>
    ELSE UNCHANGED jobVars

Enqueue(d) ==
    /\ delivery[d] = "recorded"
    /\ AddJob(EventOf(d), row[d])
    /\ delivery' = [delivery EXCEPT ![d] = "accepted"]
    /\ UNCHANGED <<eventVars, row, asked, workerVars, boundVars>>

\* POST /tasks: an id of its own, and no job id to be deduplicated by.
Ask(q) ==
    /\ q \notin asked
    /\ asked' = asked \cup {q}
    /\ AddJob(q, 1)
    /\ UNCHANGED <<eventVars, delivery, row, workerVars, boundVars>>

\* The event is recorded and its job is not added: Redis rejects and the route answers 500,
\* or the process dies.  Delivered again, the event is a duplicate.
DeliveryFault(d) ==
    /\ delivery[d] = "recorded" /\ faults < MaxFaults
    /\ faults' = faults + 1
    /\ delivery' = [delivery EXCEPT ![d] = "lost"]
    /\ UNCHANGED <<eventVars, row, asked, jobVars, workerVars, crashes>>

ApiCrash ==
    /\ crashes < MaxCrashes
    /\ \E d \in Deliveries : delivery[d] = "recorded"
    /\ crashes' = crashes + 1
    /\ delivery' = [d \in Deliveries |-> IF delivery[d] = "recorded" THEN "lost" ELSE delivery[d]]
    /\ UNCHANGED <<eventVars, row, asked, jobVars, workerVars, faults>>

\* A worker records the pull request the GitHub events are about.
TrackPullRequest ==
    /\ ~tracked /\ tracked' = TRUE
    /\ UNCHANGED <<rows, apiVars, jobVars, workerVars, boundVars>>

-----------------------------------------------------------------------------
(* The worker                                                              *)

\* Jobs of GitHub events are logged and skipped.
StartJob(t) ==
    /\ worker = "up" /\ job[t] = "waiting"
    /\ Cardinality({u \in Triggers : job[u] = "active"}) < Concurrency
    /\ job' = [job EXCEPT ![t] = "active"]
    /\ handler' = [handler EXCEPT ![t] = IF t \in GitHubEvents THEN "return" ELSE "lookup"]
    /\ UNCHANGED <<eventVars, apiVars, payload, attempts, stalls, worker, tasks, boundVars>>

NeverProduced(t) == FALSE           \* mutant: no findByReceivedEventId()
AlreadyReceived(t) == t \in Events  \* mutant: the event is looked up, not its task
AlreadyProduced(t) == \E i \in 1..Len(tasks[t]) : tasks[t][i] = payload[t]

LookUpTask(t) ==
    /\ handler[t] = "lookup"
    /\ handler' = [handler EXCEPT ![t] = IF AlreadyProduced(t) THEN "run" ELSE "create"]
    /\ UNCHANGED <<eventVars, apiVars, jobVars, worker, tasks, boundVars>>

CreateTask(t) ==
    /\ handler[t] = "create"
    /\ tasks' = [tasks EXCEPT ![t] = Append(@, payload[t])]
    /\ handler' = [handler EXCEPT ![t] = "run"]
    /\ UNCHANGED <<eventVars, apiVars, jobVars, worker, boundVars>>

\* runTask()
RunTask(t) ==
    /\ handler[t] = "run"
    /\ handler' = [handler EXCEPT ![t] = "return"]
    /\ UNCHANGED <<eventVars, apiVars, jobVars, worker, tasks, boundVars>>

\* The handler returns and BullMQ removes the job with all it kept of it.
FinishJob(t) ==
    /\ handler[t] = "return"
    /\ handler' = [handler EXCEPT ![t] = "idle"]
    /\ job' = [job EXCEPT ![t] = "none"]
    /\ payload' = [payload EXCEPT ![t] = 0]
    /\ attempts' = [attempts EXCEPT ![t] = 0]
    /\ stalls' = [stalls EXCEPT ![t] = 0]
    /\ UNCHANGED <<eventVars, apiVars, worker, tasks, boundVars>>

AttemptLeftInclusive(t) == attempts[t] < MaxAttempts      \* mutant
AttemptLeft(t) == attempts[t] + 1 < MaxAttempts

\* The handler throws: BullMQ runs it again from the start, while attempts are left.
HandlerThrows(t) ==
    /\ handler[t] \in {"lookup", "create", "run"} /\ faults < MaxFaults
    /\ faults' = faults + 1
    /\ handler' = [handler EXCEPT ![t] = "idle"]
    /\ attempts' = [attempts EXCEPT ![t] = @ + 1]
    /\ job' = [job EXCEPT ![t] = IF AttemptLeft(t) THEN "waiting" ELSE "failed"]
    /\ UNCHANGED <<eventVars, apiVars, payload, stalls, worker, tasks, crashes>>

\* The worker dies with its handlers, and BullMQ finds their jobs stalled.
WorkerCrash ==
    /\ worker = "up" /\ crashes < MaxCrashes
    /\ crashes' = crashes + 1
    /\ worker' = "down"
    /\ handler' = [t \in Triggers |-> "idle"]
    /\ job' = [t \in Triggers |-> IF job[t] # "active" THEN job[t]
                                  ELSE IF stalls[t] < MaxStalls THEN "waiting" ELSE "failed"]
    /\ stalls' = [t \in Triggers |-> IF job[t] = "active" /\ stalls[t] < MaxStalls
                                     THEN stalls[t] + 1 ELSE stalls[t]]
    /\ UNCHANGED <<eventVars, apiVars, payload, attempts, tasks, faults>>

WorkerRestart ==
    /\ worker = "down" /\ worker' = "up"
    /\ UNCHANGED <<eventVars, apiVars, jobVars, handler, tasks, boundVars>>

-----------------------------------------------------------------------------
RouteStep(d) == Receive(d) \/ Enqueue(d)
HandlerStep(t) == LookUpTask(t) \/ CreateTask(t) \/ RunTask(t) \/ FinishJob(t)

Next ==
    \/ \E d \in Deliveries : RouteStep(d) \/ DeliveryFault(d)
    \/ \E q \in Requests : Ask(q)
    \/ \E t \in Triggers : StartJob(t) \/ HandlerStep(t) \/ HandlerThrows(t)
    \/ TrackPullRequest \/ ApiCrash \/ WorkerCrash \/ WorkerRestart

Spec == Init /\ [][Next]_vars

(* The processes do not all stop while one has something to do: a delivery  *)
(* that was recorded, a job that BullMQ holds or a handler runs, a dead worker *)
(* to start again.  Deliveries need not arrive.                              *)
Progress == \/ \E d \in Deliveries : Enqueue(d)
            \/ \E t \in Triggers : StartJob(t) \/ HandlerStep(t)
            \/ WorkerRestart

FairSpec == Spec /\ WF_vars(Progress)

-----------------------------------------------------------------------------
(* Properties                                                              *)

\* Type correctness; a job that is going to run, or runs, has an attempt left.
TypeOK ==
    /\ tracked \in BOOLEAN /\ worker \in {"up", "down"}
    /\ rows \in [Events -> Seq(BOOLEAN)]
    /\ delivery \in [Deliveries -> {"sent", "recorded", "accepted", "duplicate", "lost"}]
    /\ row \in [Deliveries -> Nat]
    /\ asked \subseteq Requests
    /\ job \in [Triggers -> {"none", "waiting", "active", "failed"}]
    /\ payload \in [Triggers -> Nat]
    /\ attempts \in [Triggers -> 0..MaxAttempts] /\ stalls \in [Triggers -> 0..MaxStalls]
    /\ \A t \in Triggers : job[t] \in {"waiting", "active"} => attempts[t] < MaxAttempts
    /\ handler \in [Triggers -> {"idle", "lookup", "create", "run", "return"}]
    /\ tasks \in [Triggers -> Seq(Nat)]
    /\ crashes \in 0..MaxCrashes /\ faults \in 0..MaxFaults

\* "would create a second AgentTask for the same webhook delivery" (jobHandler.ts):
\* no event or request ever has two tasks, however often it is delivered, retried
\* or taken up again after a crash.
OneTaskPerTrigger == \A t \in Triggers : Len(tasks[t]) <= 1

\* A task comes of a change that made an issue of ours meet a trigger condition it did not
\* meet before, or of a direct request: later edits of such an issue, and GitHub events,
\* are recorded and nothing more.
OnlyTriggersBecomeTasks ==
    \A e \in Events : tasks[e] # <<>> =>
        \E c \in JiraChanges : /\ SourceEventId(c) = e
                               /\ Change[c].issue \in OurIssues /\ EntersTrigger(c)

\* Where a trigger is, by its rows, its job and its tasks.
Stage(t) ==
    CASE tasks[t] # <<>> /\ job[t] = "none"                    -> "done"
      [] tasks[t] # <<>> /\ job[t] # "none"                    -> "working"
      [] tasks[t] = <<>> /\ job[t] = "failed"                  -> "failed"
      [] tasks[t] = <<>> /\ job[t] \in {"waiting", "active"}   -> "queued"
      [] OTHER -> IF \E d \in Deliveries : EventOf(d) = t /\ delivery[d] = "recorded" THEN "accepted"
                  ELSE IF t \in Events /\ \E i \in 1..Len(rows[t]) : rows[t][i] THEN "lost"
                  ELSE "new"

\* Jobs of GitHub events are skipped; all others are there to become tasks.
Intended == JiraEvents \cup Requests

\* What asks for work, in terms of the issues.
Wanted == Requests \cup {SourceEventId(c) : c \in {x \in JiraChanges :
                            Change[x].issue \in OurIssues /\ EntersTrigger(x)}}

I == INSTANCE Intake WITH
        Triggers <- Intended,
        Wanted <- Wanted,
        Direct <- Requests,
        stage <- [t \in Intended |-> Stage(t)],
        made <- [t \in Intended |-> Len(tasks[t])]

\* Copies, retries, stalled jobs and crashes are not to be seen from outside: a trigger is
\* recorded, queued, made a task and done with, each once and in this order.  BullMQ forgets
\* a job id once the job is done, so only the received_events row keeps a late copy from
\* being queued again; and no job is removed before its task is there.
ImplementsIntake == I!Spec

\* A change that triggers work becomes a task once its event is recorded, unless its job
\* used up its attempts, or the API failed between recording the event and queueing it:
\* its copies are then refused as duplicates.  So is the change itself if another one of
\* its issue, in the same millisecond, was recorded in its stead.
RecordedEventBecomesTask ==
    \A c \in {x \in JiraChanges : TriggersWork(x)} :
        LET e == SourceEventId(c)
        IN  rows[e] # <<>> ~>
                \/ tasks[e] # <<>> \/ job[e] = "failed"
                \/ \E d \in Deliveries : EventOf(d) = e /\ delivery[d] = "lost"
                \/ \E d \in Deliveries : EventOf(d) = e /\ row[d] > 0 /\ d[1] # c
=============================================================================
