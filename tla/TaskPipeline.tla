--------------------------- MODULE TaskPipeline ---------------------------
(***************************************************************************)
(* One agent task from its trigger job to the pull request a human reviews:*)
(* the worker (apps/worker) with its dispatch, crash recovery and both     *)
(* agent phases, the API requests that touch the same rows (cancel, decide)*)
(* and the BullMQ jobs that drive it all.                                  *)
(*                                                                         *)
(* Every row is keyed by the task, so tasks meet only in the worker's job  *)
(* slots and one task is modelled.  A step is the code between two awaits  *)
(* that touch shared rows; everything else may happen between two steps.   *)
(***************************************************************************)
EXTENDS Naturals, Sequences, FiniteSets, TaskState

CONSTANTS
    Deciders,          \* POST /approvals/:id/decide requests, and the resume job of each
    Cancellers,        \* POST /tasks/:id/cancel requests
    AutoApprovePlans,  \* WORKER_AUTO_APPROVE_PLANS # "false"
    MaxAttempts,       \* attempts of a BullMQ job
    MaxStalls,         \* how often BullMQ hands out a job again after its worker died
    MaxFixAttempts,    \* FIXING rounds of one implementation run
    Concurrency,       \* WORKER_CONCURRENCY, jobs of one queue in progress at once
    MaxCrashes,        \* bound: crashes of the worker or the API
    MaxFaults          \* bound: awaits of the worker that reject

ASSUME PipelineAssumption ==
    /\ Deciders \cap {"boot", "trigger"} = {}
    /\ AutoApprovePlans \in BOOLEAN
    /\ MaxAttempts \in Nat \ {0}
    /\ MaxStalls \in Nat
    /\ MaxFixAttempts \in Nat
    /\ Concurrency \in Nat \ {0}
    /\ MaxCrashes \in Nat
    /\ MaxFaults \in Nat

\* The runs of runTask() there can be: at boot, by the trigger job, by a resume job.
Jobs    == {"trigger"} \cup Deciders
Runners == {"boot"} \cup Jobs

NoTask == "NO_TASK"      \* the row does not exist yet

VARIABLES
    state, plan, prRow,  \* agent_tasks.state, plan # null, a pull_requests row exists
    approvals,           \* statuses of the plan_approval rows, oldest first
    trail,               \* `to` of the latest state_changed row in task_events
    githubPr,            \* a pull request is open on GitHub for the task's branch
    worker,              \* "down", "booting" (recoverStuckTasksOnStartup) or "serving"
    bootFailed,          \* history: the last recovery at boot threw, and was only logged
    pc, edge, fixes,     \* per runner: next step, transition it is making, fix rounds
    job, attempts, stalls,       \* per job, kept by BullMQ
    decide, decision, target,    \* per decide request: progress, decision, row
    cancel, cancelFrom,          \* per cancel request: progress, state it read
    crashes, faults              \* bound counters

taskVars    == <<state, plan, prRow, approvals, trail, githubPr>>
workerVars  == <<worker, bootFailed>>
runnerVars  == <<pc, edge, fixes>>
jobVars     == <<job, attempts, stalls>>
decideVars  == <<decide, decision, target>>
cancelVars  == <<cancel, cancelFrom>>
requestVars == <<decideVars, cancelVars>>
boundVars   == <<crashes, faults>>
vars == <<taskVars, workerVars, runnerVars, jobVars, requestVars, boundVars>>

-----------------------------------------------------------------------------
(* The transitions the code makes, by name: TaskStateMachine.transition()  *)
(* checks From(e) first; the last three are forceRecover(), which does not.*)

RecoveryEdges == {"replan", "reimplement", "fastForward"}
Edges == RecoveryEdges \cup
    {"analyze", "planned", "planFailed", "await", "implement", "test", "fix",
     "retest", "review", "prCreated", "handover", "deny",
     "blockImplementing", "blockTesting", "blockFixing", "blockReview"}

From(e) ==
    CASE e = "analyze"                          -> "CREATED"
      [] e \in {"planned", "planFailed"}        -> "ANALYZING"
      [] e = "await"                            -> "PLANNED"
      [] e \in {"implement", "deny"}            -> "AWAITING_APPROVAL"
      [] e \in {"test", "blockImplementing"}    -> "IMPLEMENTING"
      [] e \in {"fix", "review", "blockTesting"} -> "TESTING"
      [] e \in {"retest", "blockFixing"}        -> "FIXING"
      [] e \in {"prCreated", "blockReview"}     -> "SELF_REVIEW"
      [] OTHER                                  -> "PR_CREATED"

\* Where recoverIfStuck() sends a task it finds half done.
RecoveryToPlanned(e) ==             \* mutant: recover to after planning, not before it
    IF e = "fastForward" THEN "AWAITING_HUMAN_REVIEW" ELSE "PLANNED"
RecoveryTarget(e) ==
    CASE e = "replan"      -> "CREATED"
      [] e = "reimplement" -> "AWAITING_APPROVAL"
      [] OTHER             -> "AWAITING_HUMAN_REVIEW"

To(e) ==
    CASE e \in RecoveryEdges     -> RecoveryTarget(e)
      [] e = "analyze"           -> "ANALYZING"
      [] e = "planned"           -> "PLANNED"
      [] e = "await"             -> "AWAITING_APPROVAL"
      [] e = "implement"         -> "IMPLEMENTING"
      [] e \in {"test", "retest"} -> "TESTING"
      [] e = "fix"               -> "FIXING"
      [] e = "review"            -> "SELF_REVIEW"
      [] e = "prCreated"         -> "PR_CREATED"
      [] e = "handover"          -> "AWAITING_HUMAN_REVIEW"
      [] e = "deny"              -> "CANCELLED"
      [] OTHER                   -> "BLOCKED"

\* What the caller does once the transition has been made.
Then(e) ==
    CASE e = "analyze"                  -> "plan"
      [] e \in {"planned", "planFailed"} -> "planDone"
      [] e = "await"                    -> "requestApproval"
      [] e = "implement"                -> "code"
      [] e \in {"test", "retest"}       -> "gate"
      [] e = "fix"                      -> "fixCode"
      [] e = "review"                   -> "push"
      [] e = "prCreated"                -> "announce"
      [] e \in RecoveryEdges            -> "recovered"
      [] OTHER                          -> "end"

PCs == {"idle", "lookup", "create", "read", "findPr", "force", "recovered",
        "check", "write", "log", "plan", "planDone", "requestApproval",
        "approvalRequested", "findApproval", "code", "gate", "fixCode", "push",
        "openPr", "recordPr", "announce", "end"}

Init ==
    /\ state = NoTask /\ plan = FALSE /\ prRow = FALSE /\ approvals = <<>>
    /\ trail = NoTask /\ githubPr = FALSE
    /\ worker = "serving" /\ bootFailed = FALSE
    /\ pc = [r \in Runners |-> "idle"]
    /\ edge = [r \in Runners |-> "none"]
    /\ fixes = [r \in Runners |-> 0]
    /\ job = [j \in Jobs |-> IF j = "trigger" THEN "waiting" ELSE "none"]
    /\ attempts = [j \in Jobs |-> 0] /\ stalls = [j \in Jobs |-> 0]
    /\ decide = [d \in Deciders |-> "idle"]
    /\ decision \in [Deciders -> {"approved", "denied"}]
    /\ target = [d \in Deciders |-> 0]
    /\ cancel = [c \in Cancellers |-> "idle"]
    /\ cancelFrom = [c \in Cancellers |-> NoTask]
    /\ crashes = 0 /\ faults = 0

Goto(r, p, e) ==
    /\ pc' = [pc EXCEPT ![r] = p]
    /\ edge' = [edge EXCEPT ![r] = e]
    /\ UNCHANGED fixes

\* The step touches nothing but the runner and what the caller names.
OnlyRunner == UNCHANGED <<workerVars, jobVars, requestVars, boundVars>>

(* The run ended by throwing: the startup loop logs and moves on, BullMQ   *)
(* runs the job's handler again until its attempts are used up.            *)
Throw(r) ==
    /\ pc' = [pc EXCEPT ![r] = "idle"]
    /\ edge' = [edge EXCEPT ![r] = "none"]
    /\ fixes' = [fixes EXCEPT ![r] = 0]
    /\ IF r = "boot"
       THEN worker' = "serving" /\ bootFailed' = TRUE /\ UNCHANGED jobVars
       ELSE /\ attempts' = [attempts EXCEPT ![r] = @ + 1]
            /\ job' = [job EXCEPT ![r] = IF attempts[r] + 1 < MaxAttempts
                                         THEN "waiting" ELSE "failed"]
            /\ UNCHANGED <<workerVars, stalls>>
    /\ UNCHANGED <<taskVars, requestVars>>

-----------------------------------------------------------------------------
(* Jobs and process lifetime                                               *)

\* BullMQ hands a waiting job to the worker, one at a time per queue slot.
StartJob(j) ==
    /\ worker = "serving" /\ job[j] = "waiting"
    /\ j \in Deciders =>
         Cardinality({d \in Deciders : job[d] = "active"}) < Concurrency
    /\ job' = [job EXCEPT ![j] = "active"]
    /\ Goto(j, IF j = "trigger" THEN "lookup" ELSE "read", "none")
    /\ UNCHANGED <<taskVars, workerVars, attempts, stalls, requestVars, boundVars>>

\* handleJiraTrigger: reuse the task this event already produced, if any.
LookUpTask(r) ==
    /\ pc[r] = "lookup"
    /\ Goto(r, IF state = NoTask THEN "create" ELSE "read", "none")
    /\ OnlyRunner /\ UNCHANGED taskVars

CreateTask(r) ==
    /\ pc[r] = "create"
    /\ state' = "CREATED"
    /\ Goto(r, "read", "none")
    /\ OnlyRunner /\ UNCHANGED <<plan, prRow, approvals, trail, githubPr>>

\* The handler returns, and the workspace has been destroyed.
End(r) ==
    /\ pc[r] = "end"
    /\ pc' = [pc EXCEPT ![r] = "idle"]
    /\ fixes' = [fixes EXCEPT ![r] = 0]
    /\ IF r = "boot"
       THEN worker' = "serving" /\ UNCHANGED job
       ELSE job' = [job EXCEPT ![r] = "done"] /\ UNCHANGED worker
    /\ UNCHANGED <<taskVars, bootFailed, edge, attempts, stalls, requestVars, boundVars>>

\* An await of the run rejects: the database, the LLM, GitHub, git, Docker.
Fault(r) ==
    /\ pc[r] # "idle" /\ faults < MaxFaults
    /\ faults' = faults + 1
    /\ Throw(r) /\ UNCHANGED crashes

\* The worker process dies with every run it had in progress.
WorkerCrash ==
    /\ worker # "down" /\ crashes < MaxCrashes
    /\ crashes' = crashes + 1
    /\ worker' = "down"
    /\ pc' = [r \in Runners |-> "idle"]
    /\ edge' = [r \in Runners |-> "none"]
    /\ fixes' = [r \in Runners |-> 0]
    /\ job' = [j \in Jobs |-> IF job[j] # "active" THEN job[j]
                              ELSE IF stalls[j] < MaxStalls THEN "waiting" ELSE "failed"]
    /\ stalls' = [j \in Jobs |-> IF job[j] = "active" /\ stalls[j] < MaxStalls
                                 THEN stalls[j] + 1 ELSE stalls[j]]
    /\ UNCHANGED <<taskVars, bootFailed, attempts, requestVars, faults>>

\* main(): recover what needs attention, and only then take jobs.
Boot ==
    /\ worker = "down" /\ bootFailed' = FALSE
    /\ IF state \in NeedsAttentionOnBoot
       THEN worker' = "booting" /\ Goto("boot", "read", "none")
       ELSE worker' = "serving" /\ UNCHANGED runnerVars
    /\ UNCHANGED <<taskVars, jobVars, requestVars, boundVars>>

-----------------------------------------------------------------------------
(* runTask(): recovery and dispatch                                        *)

\* Continue from the state just read; `drivable` are the stages still ahead.
Drive(r, drivable) ==
    \/ /\ state \in drivable
       /\ Goto(r, "check", IF state = "CREATED" THEN "analyze" ELSE "await")
    \/ state = "AWAITING_APPROVAL" /\ Goto(r, "findApproval", "none")
    \/ /\ state \notin drivable \cup {"AWAITING_APPROVAL"}
       /\ Goto(r, "end", "none")

ReadTask(r) ==
    /\ pc[r] = "read"
    /\ \/ state = "ANALYZING" /\ Goto(r, "force", "replan")
       \/ state \in InProgress /\ Goto(r, "findPr", "none")
       \/ state \notin InProgress \cup {"ANALYZING"} /\ Drive(r, {"CREATED", "PLANNED"})
    /\ OnlyRunner /\ UNCHANGED taskVars

AlwaysFastForward == "fastForward"           \* mutant: the pull request is assumed
AlwaysReimplement == "reimplement"           \* mutant: the lookup is dropped
RecoveryEdge == IF prRow THEN "fastForward" ELSE "reimplement"

FindPullRequest(r) ==
    /\ pc[r] = "findPr"
    /\ Goto(r, "force", RecoveryEdge)
    /\ OnlyRunner /\ UNCHANGED taskVars

\* Re-reads of the row after recovery, after planning, after asking for approval.
Reread(r) ==
    /\ \/ pc[r] = "recovered" /\ Drive(r, {"CREATED", "PLANNED"})
       \/ pc[r] = "planDone" /\ Drive(r, {"PLANNED"})
       \/ pc[r] = "approvalRequested" /\ Drive(r, {})
    /\ OnlyRunner /\ UNCHANGED taskVars

\* forceRecover(): no check but "already there".
ForceRecover(r) ==
    /\ pc[r] = "force"
    /\ IF state = To(edge[r]) THEN Goto(r, "recovered", "none")
                              ELSE Goto(r, "write", edge[r])
    /\ OnlyRunner /\ UNCHANGED taskVars

\* transition(): compare the row with the caller's `from`, then with the graph.
Check(r) ==
    /\ pc[r] = "check"
    /\ \/ /\ state = From(edge[r]) /\ CanTransition(state, To(edge[r]))
          /\ Goto(r, "write", edge[r])
          /\ OnlyRunner /\ UNCHANGED taskVars
       \/ /\ ~(state = From(edge[r]) /\ CanTransition(state, To(edge[r])))
          /\ Throw(r) /\ UNCHANGED boundVars

\* persist(): the row first ...
WriteState(r) ==
    /\ pc[r] = "write"
    /\ state' = To(edge[r])
    /\ Goto(r, "log", edge[r])
    /\ OnlyRunner /\ UNCHANGED <<plan, prRow, approvals, trail, githubPr>>

\* ... and the task_events row in a second statement.
LogState(r) ==
    /\ pc[r] = "log"
    /\ trail' = To(edge[r])
    /\ Goto(r, Then(edge[r]), "none")
    /\ OnlyRunner /\ UNCHANGED <<state, plan, prRow, approvals, githubPr>>

-----------------------------------------------------------------------------
(* The phases                                                              *)

\* PlannerRunner.run(): the loop produced a plan, or none within its bounds.
Plan(r) ==
    /\ pc[r] = "plan"
    /\ \/ plan' = TRUE /\ Goto(r, "check", "planned")
       \/ UNCHANGED plan /\ Goto(r, "check", "planFailed")
    /\ OnlyRunner /\ UNCHANGED <<state, prRow, approvals, trail, githubPr>>

RequestApproval(r) ==
    /\ pc[r] = "requestApproval"
    /\ approvals' = Append(approvals, "pending")
    /\ Goto(r, "approvalRequested", "none")
    /\ OnlyRunner /\ UNCHANGED <<state, plan, prRow, trail, githubPr>>

\* findPlanApproval() takes the most recent row.
PlanApproval ==
    IF approvals = <<>> THEN "missing" ELSE approvals[Len(approvals)]

PlanNotDenied == AutoApprovePlans \/ PlanApproval # "denied"   \* mutant
PlanAccepted == AutoApprovePlans \/ PlanApproval = "approved"

FindApproval(r) ==
    /\ pc[r] = "findApproval"
    /\ \/ /\ PlanAccepted /\ plan       \* implementationPlanSchema.parse(task.plan)
          /\ Goto(r, "check", "implement") /\ OnlyRunner
       \/ /\ PlanAccepted /\ ~plan
          /\ Throw(r) /\ UNCHANGED boundVars
       \/ /\ ~AutoApprovePlans /\ PlanApproval = "denied"
          /\ Goto(r, "check", "deny") /\ OnlyRunner
       \/ /\ ~AutoApprovePlans /\ PlanApproval \in {"pending", "missing"}
          /\ Goto(r, "end", "none") /\ OnlyRunner
    /\ UNCHANGED taskVars

\* The model may call github.create_pr itself; GitHub may have done what it rejects.
MayOpenPullRequest == githubPr' \in {githubPr, TRUE}

\* ImplementationAgentRunner.run(), from the branch to a finished agent loop.
Code(r) ==
    /\ pc[r] = "code"
    /\ \E e \in {"test", "blockImplementing"} : Goto(r, "check", e)
    /\ MayOpenPullRequest
    /\ OnlyRunner /\ UNCHANGED <<state, plan, prRow, approvals, trail>>

FixAttemptsLeftInclusive(r) == fixes[r] <= MaxFixAttempts       \* mutant
FixAttemptsLeft(r) == fixes[r] < MaxFixAttempts

FixAttemptNotCounted(r) == fixes[r]                            \* mutant
CountFixAttempt(r) == fixes[r] + 1

\* Build, lint, typecheck and tests pass, or fail with or without attempts left.
VerificationGate(r) ==
    /\ pc[r] = "gate"
    /\ \/ Goto(r, "check", "review")
       \/ /\ FixAttemptsLeft(r)
          /\ pc' = [pc EXCEPT ![r] = "check"]
          /\ edge' = [edge EXCEPT ![r] = "fix"]
          /\ fixes' = [fixes EXCEPT ![r] = CountFixAttempt(r)]
       \/ ~FixAttemptsLeft(r) /\ Goto(r, "check", "blockTesting")
    /\ OnlyRunner /\ UNCHANGED taskVars

FixCode(r) ==
    /\ pc[r] = "fixCode"
    /\ \E e \in {"retest", "blockFixing"} : Goto(r, "check", e)
    /\ MayOpenPullRequest
    /\ OnlyRunner /\ UNCHANGED <<state, plan, prRow, approvals, trail>>

\* Diff, self-review and git.push.
Push(r) ==
    /\ pc[r] = "push"
    /\ Goto(r, "openPr", "none") \/ Goto(r, "check", "blockReview")
    /\ OnlyRunner /\ UNCHANGED taskVars

\* github.create_pr; GitHub keeps one open pull request per head branch.
OpenPullRequest(r) ==
    /\ pc[r] = "openPr"
    /\ \/ ~githubPr /\ githubPr' = TRUE /\ Goto(r, "recordPr", "none")
       \/ MayOpenPullRequest /\ Goto(r, "check", "blockReview")
    /\ OnlyRunner /\ UNCHANGED <<state, plan, prRow, approvals, trail>>

\* pullRequests.create(), whose taskId is unique, and the best-effort Jira link.
RecordPullRequest(r) ==
    /\ pc[r] = "recordPr"
    /\ \/ /\ ~prRow /\ prRow' = TRUE
          /\ Goto(r, "check", "prCreated")
          /\ OnlyRunner /\ UNCHANGED <<state, plan, approvals, trail, githubPr>>
       \/ prRow /\ Throw(r) /\ UNCHANGED boundVars

\* The pull_request_created event.
Announce(r) ==
    /\ pc[r] = "announce"
    /\ Goto(r, "check", "handover")
    /\ OnlyRunner /\ UNCHANGED taskVars

-----------------------------------------------------------------------------
(* API requests                                                            *)

DecideFind(d) ==
    /\ decide[d] = "idle"
    /\ \E i \in 1..Len(approvals) :
         /\ target' = [target EXCEPT ![d] = i]
         /\ decide' = [decide EXCEPT ![d] =
                         IF approvals[i] = "pending" THEN "found" ELSE "refused"]
    /\ UNCHANGED <<taskVars, workerVars, runnerVars, jobVars, decision, cancelVars, boundVars>>

DecideUpdate(d) ==
    /\ decide[d] = "found"
    /\ approvals' = [approvals EXCEPT ![target[d]] = decision[d]]
    /\ decide' = [decide EXCEPT ![d] = "decided"]
    /\ UNCHANGED <<state, plan, prRow, trail, githubPr, workerVars, runnerVars, jobVars,
                   decision, target, cancelVars, boundVars>>

\* The nudge: a job of its own on the task-resume queue.
DecideEnqueue(d) ==
    /\ decide[d] = "decided"
    /\ decide' = [decide EXCEPT ![d] = "answered"]
    /\ job' = [job EXCEPT ![d] = "waiting"]
    /\ UNCHANGED <<taskVars, workerVars, runnerVars, attempts, stalls,
                   decision, target, cancelVars, boundVars>>

CancelRead(c) ==
    /\ cancel[c] = "idle" /\ state # NoTask
    /\ cancelFrom' = [cancelFrom EXCEPT ![c] = state]
    /\ cancel' = [cancel EXCEPT ![c] =
                    IF CanTransition(state, "CANCELLED") THEN "read" ELSE "done"]
    /\ UNCHANGED <<taskVars, workerVars, runnerVars, jobVars, decideVars, boundVars>>

CancelCheck(c) ==
    /\ cancel[c] = "read"
    /\ cancel' = [cancel EXCEPT ![c] = IF state = cancelFrom[c] THEN "checked" ELSE "done"]
    /\ UNCHANGED <<taskVars, workerVars, runnerVars, jobVars, decideVars, cancelFrom, boundVars>>

CancelWrite(c) ==
    /\ cancel[c] = "checked"
    /\ state' = "CANCELLED"
    /\ cancel' = [cancel EXCEPT ![c] = "written"]
    /\ UNCHANGED <<plan, prRow, approvals, trail, githubPr, workerVars, runnerVars, jobVars,
                   decideVars, cancelFrom, boundVars>>

CancelLog(c) ==
    /\ cancel[c] = "written"
    /\ trail' = "CANCELLED"
    /\ cancel' = [cancel EXCEPT ![c] = "done"]
    /\ UNCHANGED <<state, plan, prRow, approvals, githubPr, workerVars, runnerVars, jobVars,
                   decideVars, cancelFrom, boundVars>>

\* The API process dies with every request it was serving.
ApiCrash ==
    /\ crashes < MaxCrashes
    /\ \/ \E d \in Deciders : decide[d] \in {"found", "decided"}
       \/ \E c \in Cancellers : cancel[c] \in {"read", "checked", "written"}
    /\ crashes' = crashes + 1
    /\ decide' = [d \in Deciders |-> CASE decide[d] = "found"   -> "refused"
                                       [] decide[d] = "decided" -> "unsent"
                                       [] OTHER                 -> decide[d]]
    /\ cancel' = [c \in Cancellers |-> IF cancel[c] = "idle" THEN "idle" ELSE "done"]
    /\ UNCHANGED <<taskVars, workerVars, runnerVars, jobVars, decision, target, cancelFrom, faults>>

-----------------------------------------------------------------------------
\* One step of runTask() and what it calls.
RunStep(r) ==
    \/ LookUpTask(r) \/ CreateTask(r) \/ ReadTask(r) \/ FindPullRequest(r)
    \/ ForceRecover(r) \/ Reread(r) \/ Check(r) \/ WriteState(r) \/ LogState(r)
    \/ Plan(r) \/ RequestApproval(r) \/ FindApproval(r) \/ Code(r)
    \/ VerificationGate(r) \/ FixCode(r) \/ Push(r) \/ OpenPullRequest(r)
    \/ RecordPullRequest(r) \/ Announce(r) \/ End(r)

DecideStep(d) == DecideFind(d) \/ DecideUpdate(d) \/ DecideEnqueue(d)
CancelStep(c) == CancelRead(c) \/ CancelCheck(c) \/ CancelWrite(c) \/ CancelLog(c)

Next ==
    \/ \E r \in Runners : RunStep(r) \/ Fault(r)
    \/ \E j \in Jobs : StartJob(j)
    \/ \E d \in Deciders : DecideStep(d)
    \/ \E c \in Cancellers : CancelStep(c)
    \/ WorkerCrash \/ Boot \/ ApiCrash

Spec == Init /\ [][Next]_vars

(* Every await answers or rejects, BullMQ hands out the jobs it holds, a   *)
(* worker that died is started again.  Nobody has to send a request.        *)
Fairness ==
    /\ \A r \in Runners : WF_vars(RunStep(r))
    /\ \A j \in Jobs : WF_vars(StartJob(j))
    /\ \A d \in Deciders : WF_vars(DecideUpdate(d) \/ DecideEnqueue(d))
    /\ WF_vars(Boot)

FairSpec == Spec /\ Fairness
-----------------------------------------------------------------------------
(* Properties                                                              *)

TaskTypeOK ==
    /\ state \in TaskStates \cup {NoTask} /\ trail \in TaskStates \cup {NoTask}
    /\ plan \in BOOLEAN /\ prRow \in BOOLEAN /\ githubPr \in BOOLEAN
    /\ approvals \in Seq({"pending", "approved", "denied"})

RunnerTypeOK ==
    /\ worker \in {"down", "booting", "serving"} /\ bootFailed \in BOOLEAN
    /\ pc \in [Runners -> PCs] /\ edge \in [Runners -> Edges \cup {"none"}]
    /\ fixes \in [Runners -> 0..MaxFixAttempts]

JobTypeOK ==
    /\ job \in [Jobs -> {"none", "waiting", "active", "done", "failed"}]
    /\ attempts \in [Jobs -> 0..MaxAttempts] /\ stalls \in [Jobs -> 0..MaxStalls]

RequestTypeOK ==
    /\ decide \in [Deciders -> {"idle", "found", "refused", "decided", "answered", "unsent"}]
    /\ decision \in [Deciders -> {"approved", "denied"}]
    /\ target \in [Deciders -> Nat]
    /\ cancel \in [Cancellers -> {"idle", "read", "checked", "written", "done"}]
    /\ cancelFrom \in [Cancellers -> TaskStates \cup {NoTask}]

\* Type correctness: every row, program counter and job stays in its domain, and
\* fix rounds, attempts, stalls and the bounds stay within their budgets.
TypeOK == /\ TaskTypeOK /\ RunnerTypeOK /\ JobTypeOK /\ RequestTypeOK
          /\ crashes \in 0..MaxCrashes /\ faults \in 0..MaxFaults

\* A task a human is asked to review has its pull request on GitHub and on record,
\* whichever run, recovery or cancellation wrote the state last.
ReviewHasPullRequest ==
    state \in {"PR_CREATED", "AWAITING_HUMAN_REVIEW"} => prRow /\ githubPr

\* From PLANNED on there is a plan to parse, whatever crashed or was retried:
\* implementationPlanSchema.parse() never meets a null plan.
PlanBeforeWork ==
    state \in {"PLANNED", "AWAITING_APPROVAL", "AWAITING_HUMAN_REVIEW"} \cup InProgress
        => plan

\* "a task only ever has one" plan_approval (taskRunner.ts), through crashes,
\* retries and resumes.
AtMostOnePlanApproval == Len(approvals) <= 1

\* Some decide request has written "approved" to the plan's approval row.
Consent == \E d \in Deciders : /\ decide[d] \in {"decided", "answered", "unsent"}
                               /\ decision[d] = "approved"

\* Without auto-approval nothing is implemented, and no pull request is opened,
\* unless a person approved the plan.
ImplementationNeedsConsent ==
    ~AutoApprovePlans /\ (githubPr \/ state \in InProgress) => Consent

\* Once the pull request is on record the Implementation Agent is never run again,
\* and the run that recorded it is past its work.
ImplementationPCs == {"code", "gate", "fixCode", "push", "openPr", "recordPr"}
PullRequestEndsImplementation ==
    prRow => \A r \in Runners : pc[r] \notin ImplementationPCs

\* The worker is up and has nothing to do.
Quiet == /\ worker = "serving"
         /\ \A r \in Runners : pc[r] = "idle"
         /\ \A j \in Jobs : job[j] \notin {"waiting", "active"}

\* A person can still decide, or has decided and the nudge is not on its way; a crash or
\* a fault between AWAITING_APPROVAL and its approval row leaves nothing to decide.
WaitsForDecision ==
    /\ ~AutoApprovePlans /\ state = "AWAITING_APPROVAL"
    /\ \A d \in Deciders : decide[d] # "answered"
    /\ \/ approvals = <<"pending">>
       \/ approvals = <<>> /\ crashes + faults > 0
       \/ \E d \in Deciders : decide[d] \in {"decided", "unsent"}

\* When nothing is left to do, the task has ended, or waits for a person who can act on it.
\* What leaves it to nobody: a crash or fault between AWAITING_APPROVAL and its row, a decision
\* whose resume job was never enqueued, a recovery at boot that threw (main() goes on without
\* the task), a job that has used up its attempts.  Requests that race each other, a resume
\* job or a recovery never do.
NoTaskIsForgotten ==
    Quiet => \/ state \in TerminalStates \cup {"BLOCKED", "AWAITING_HUMAN_REVIEW"}
             \/ WaitsForDecision
             \/ bootFailed
             \/ \E j \in Jobs : job[j] = "failed"

\* With auto-approval a trigger comes to rest: reviewed, blocked or cancelled, or
\* with the attempts of its job used up.
TriggerSettles ==
    <>[](/\ Quiet
         /\ \/ job["trigger"] = "failed"
            \/ state \in TerminalStates \cup {"BLOCKED", "AWAITING_HUMAN_REVIEW"})

\* The pipeline does no more than Delivery promises.
D == INSTANCE Delivery WITH
        ConsentRequired <- ~AutoApprovePlans,
        planned <- plan, asked <- approvals # <<>>, consent <- Consent,
        opened <- githubPr, recorded <- prRow,
        underReview <- state \in {"PR_CREATED", "AWAITING_HUMAN_REVIEW"}
ImplementsDelivery == D!Spec

-----------------------------------------------------------------------------
(* What a comment or a document says and the code does not keep            *)

\* taskStateMachine.ts: every state change corresponds to "a real, legal
\* transition"; forced recoveries are exempt.
StateChangesAreLegal ==
    [][state' # state /\ state # NoTask =>
         \/ CanTransition(state, state')
         \/ \E r \in Runners : pc[r] = "write" /\ edge[r] \in RecoveryEdges]_vars

\* taskStateMachine.ts: the row and its state_changed event are "never written
\* separately or out of sync with each other".
TrailInSync == Quiet /\ state \notin {NoTask, "CREATED"} => trail = state
=============================================================================
