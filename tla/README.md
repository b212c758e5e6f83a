# A TLA+ model of maddox-bot

maddox-bot turns a Jira issue into a pull request: an API receives webhooks and
people's decisions, a worker plans and implements the issue with an LLM inside a
sandbox, and a VS Code extension shows what is going on.  Everything the parts
know about each other is in Postgres rows and in two BullMQ queues.  This project
models that coordination in TLA+, checks it with TLC and proves the most important
parts with TLAPS.

Paths below are relative to the repository root.

## 1. Inventory

### Components, the state they keep and what they do

| component | code | state it keeps | operations |
|---|---|---|---|
| worker, dispatch and recovery | `apps/worker/src/{index,jobHandler,taskRunner,startupRecovery}.ts` | none of its own: reads and writes `agent_tasks`, `approvals`, `pull_requests` | boot recovery, trigger job, resume job; `runTask()`, `recoverIfStuck()` |
| worker, phases | `apps/worker/src/{plannerPhase,implementationPhase,workspace,...}.ts` | a workspace per phase: a clone and a sandbox container, gone after it | run the planner, run the implementation, create and destroy a workspace |
| task state machine | `packages/agent-core/src/taskStateMachine.ts` | `agent_tasks.state`, `previousState`, `state_changed` rows of `task_events` | `transition()`, `resume()` (no caller), `forceRecover()`, each ending in `persist()` |
| role runners | `packages/agent-core/src/{plannerRunner,implementationAgentRunner}.ts` | fix attempts, the conversation (in memory) | plan; branch, code, verification gate, fix, push, open and record a pull request |
| agent loop, tools, permissions | `packages/agent-core/src/{agentLoopRunner,toolExecution}.ts`, `packages/agent-tools`, `packages/permissions` | the conversation, a tool call count, a deadline; `tool_calls` rows | one LLM turn, its tool calls, the structured answer |
| API, requests | `apps/api/src/routes/{tasks,approvals}.ts` | rows | start a task, cancel it, decide an approval, read |
| API, webhooks | `apps/api/src/routes/{jiraWebhook,githubWebhook}.ts`, `packages/events` | `received_events` rows | verify, judge relevance, record once, enqueue |
| API, stream | `apps/api/src/routes/taskStream.ts` | per socket: last event time, last state | poll and send |
| queue | `packages/queue` (BullMQ) | jobs: waiting, active, failed; attempts; stalls | enqueue, process, retry |
| VS Code extension | `apps/vscode-extension` | `chatState`, `dashboardState` (tasks, approvals, selection, events), a socket, a timer | chat commands, select, decide, refresh, stream, render, dispose |
| adapters | `packages/{git,github,jira,llm,sandbox}` | none | calls of external services |
| database, shared | `packages/{database,shared}` | Postgres | row access |

### How they interact

* The API enqueues a job on `agent-triggers` (a webhook or `POST /tasks`) and one on
  `task-resume` (a decision).  The worker process runs one BullMQ worker per queue,
  **each with its own concurrency**, so a trigger job and a resume job of one task can
  run at the same time.
* All three entries of the worker (boot, trigger, resume) call `runTask()`, which reads the row,
  repairs what looks like the trace of a crash, and goes on from there.
* The extension's panel asks the API, listens to the stream of one task, and posts to its webview what that is to
  show.  Its handlers are asynchronous: two may be suspended at an `await` together, each holding a state it read.
* The API's cancel request writes `agent_tasks` through the same `TaskStateMachine`
  as the worker does, in another process.  There are no transactions and no
  conditional updates: every check is a read in one statement and a write in a later one.

### What is hard

Interleavings of boot, trigger job, resume jobs, cancel and decide requests at every
`await`; a crash of the worker or the API between two statements; BullMQ handing a
job out again after a throw or a crash; a pull request that exists on GitHub and is
not yet on record; loops that must end; answers that arrive in another order than they
were asked for, or after the panel is closed.  `PROJECT.json` lists each hazard at its line.

### What makes each component correct

* dispatch and phases: a plan before work, consent before an implementation, one approval
  row, at most one recorded pull request, a pull request behind every review, no
  implementation after it, every trigger comes to rest, and no task waits for nobody;
* state machine: every change is an edge of the graph, and the audit trail agrees;
* intake: a change triggers work exactly when it makes an issue meet a condition it did not meet; every such event
  becomes exactly one task, unless its job fails for good;
* agent loop: bounds hold, the conversation stays well formed, every call has its audit row, and
  the verification gate's verdict is about the files the model left;
* stream: the panel shows the selected task's events, each of them, and each once;
* chat: every line is answered and stays, and a command reaches the task it is about;
* dashboard: what is shown is behind the API only for a while and goes back only for a named reason; a closed
  panel leaves nothing running;
* workspace: nothing is left behind; the shared branch is one run's work, and the pull request on
  record is what was tested.

## 2. Modules

| module | models | 
|---|---|
| `TaskState` | the task state graph: pure operators |
| `TaskPipeline` | one task: worker, both phases, recovery, the API's cancel and decide requests, the jobs of both queues |
| `MCTaskPipeline` | `TaskPipeline` for TLC (symmetry of the decide requests) |
| `Delivery` | abstract: what the worker promises about a task |
| `TaskPipelineProofs` | the inductive invariants and the safety theorems |
| `DeliveryProofs` | `TaskPipeline` implements `Delivery` |
| `JiraTrigger` | which changes of an issue trigger work: pure operators |
| `EventIntake` | from a webhook delivery or a direct request to its task, for several events at once: routes, `received_events`, the `agent-triggers` queue, the trigger handler |
| `MCEventIntake` | the deliveries of the instance TLC checks |
| `Intake` | abstract: the stages a trigger goes through, each once |
| `EventIntakeProofs` | two inductive invariants, the safety theorems, and that `EventIntake` implements `Intake` |
| `ToolGate` | the tools of each role and `PermissionGate.classify()`: pure operators |
| `AgentLoop` | one role-run: the LLM loop, its tool calls, the structured answer, the verification gate and the fix rounds |
| `MCAgentLoop` | the calls and turns of the instance TLC checks |
| `AgentLoopProofs` | the inductive invariant and the safety theorems |
| `TaskStream` | the event log of the selected task: `task_events`, the polling handlers of the API, the panel's selection |
| `MCTaskStream` | the events and polls of the instance TLC checks |
| `EventLog` | abstract: what the panel's event log promises |
| `TaskStreamProofs` | four layers of inductive invariants, the safety theorems, and that `TaskStream` implements `EventLog` |
| `Workspaces` | the phases of one task with what each leaves on the host, on the remote and at GitHub |
| `MCWorkspaces` | `Workspaces` for TLC (symmetry of the runs) |
| `WorkspacesProofs` | three invariants and the safety theorems |
| `Chat` | the chat: lines under way together, their requests and polls, and the chat each writes back |
| `Panel` | `Chat` composed with the dashboard, its refreshes, the stream's states, rendering and closing |
| `MCChat`, `MCPanel` | the instances TLC checks |
| `ChatProofs` | the inductive invariant of the chat and the safety theorems |
| `PanelProofs` | `Panel` implements `Chat`; two invariants of its own and the safety theorems |

### TaskPipeline

Every row is keyed by the task, so tasks meet only in the worker's job slots; one
task is modelled.  A *step* is the code between two awaits that touch shared rows.
`Runners` are the calls of `runTask()` there can be at once: the boot recovery, the
trigger job, and one resume job per decide request.  Each has a program counter `pc`,
the state transition it is making (`edge`) and its fix rounds (`fixes`).

| state | code |
|---|---|
| `state`, `plan`, `prRow`, `approvals` | `agent_tasks.state`, `agent_tasks.plan # null`, a `pull_requests` row, the statuses of the plan approvals |
| `trail` | `to` of the latest `state_changed` row |
| `githubPr` | an open pull request for the task's branch on GitHub (external: GitHub refuses a second for one head) |
| `worker` | the worker process: down, in `recoverStuckTasksOnStartup`, or serving |
| `bootFailed` | (history) the last recovery at boot threw, which `startupRecovery.ts` logs before it goes on |
| `job`, `attempts`, `stalls` | what BullMQ keeps about each job (external: a throw uses an attempt, a dead worker's job is handed out again once) |
| `decide`, `decision`, `target`, `cancel`, `cancelFrom` | the API requests in flight |
| `crashes`, `faults` | bound counters |

`transition()` is three steps (`Check`, `WriteState`, `LogState`), because it is three
statements; `forceRecover()` is `ForceRecover` and then the same two writes.  `From`, `To` and `Then` tabulate
the calls of `transition()` in the runners: the state each expects, the state it
writes and where its caller goes on.  The other actions carry the names of what they do.
`Fault` is an await that rejects, at any step of a run; `WorkerCrash` and
`ApiCrash` kill a process.
A pull request may come to be open in three ways: the runner opens it, GitHub opens it and the call is rejected all the same, or
the model opens it during a loop (`MayOpenPullRequest`); in the last two it is not on record.

Left out: `previousState` (only `resume()` reads it, and nothing calls that); the wording of
events and of the other event rows; the best-effort Jira link; the jobs that end at once because
the repository or the issue key is unknown; what the LLM does with tools during a loop (its
outcome, completed or not, is a choice); BullMQ handing out a job whose worker
is alive but stalled; `updateState()`'s own read before its write.

### EventIntake

`TaskPipeline` starts with the one trigger job of one task; `EventIntake` is what comes before it,
for any number of events, and `JiraTrigger` the rule that says which of them count.  It ends where the handler calls `runTask()`.  A *trigger* is a webhook
event or a `POST /tasks` request.  An event is identified by `(source, sourceEventId)`, from which the job
id is computed; a sender may deliver it any number of times, and copies are handled
concurrently.  Jira gives no id, so that of a change is its issue and its time in milliseconds (`SourceEventId`), and
**two changes may share it**.

`JiraTrigger` takes what is known of a change as constants: the fields before and after it, whether the issue was
created, and the repository's configuration.  `Altered`, `StatusReached`, `LabelAdded`, `AssignedToAi` and `Evaluate` are
`evaluateJiraRelevance()`, which reads the changelog; `EntersTrigger` is what it is for, said of the issue: it meets a
condition it did not meet before.  A webhook's route is `Receive` (judge, and record if the event is new) and
`Enqueue`.  Judging and recording are one step: between them only a pull request's first row could change what
is judged, and a row written then could as well have come after both.  Recording and queueing are two, and
what falls between them is lost.

| state | code |
|---|---|
| `rows` | the `received_events` rows of an event, with `isRelevant` (the schema's unique key is `IsNew`) |
| `delivery`, `row` | a call of a webhook route: how far it is, the id of the row it wrote |
| `asked` | `POST /tasks` requests made |
| `tracked` | the `pull_requests` row that makes GitHub events relevant; a worker may write it at any time |
| `job`, `payload`, `attempts`, `stalls` | what BullMQ keeps about a job; `payload` is its `receivedEventId` |
| `worker`, `handler` | the worker process, and the next step of each running handler |
| `tasks` | `trigger.receivedEventId` of the `agent_tasks` rows of a trigger |

A finished job is forgotten, id included (`removeOnComplete`); a failed one is kept and blocks its id
(`removeOnFail: false`).

`ImplementsIntake` hides all of it behind `Intake`, for the triggers of which a task may ever be made (`Intended`: Jira events
and requests).  `Stage(t)` reads the stage off the rows: a relevant row some delivery still has to queue is "accepted", one
nobody will queue any more is "lost", and a job is "queued" until its task is there.

Left out: requests refused before anything is written; faults before an event is recorded, which leave no trace (the
sender may deliver again); an enqueue that rejects although Redis took the job; `cancel()` and delays of jobs; a job
whose live worker lost its lock.

### AgentLoop

`TaskPipeline` takes the outcome of an LLM loop as a choice; `AgentLoop` is what happens inside, for a run
of either role.  The model's turns are arbitrary sequences of calls, and a call is a tool name with the class
its input falls in: refused by the schema, sensitive, a push to a protected branch, a push with force, nothing special,
or "unread" (below).  `Verdict` is what `ToolRegistry.execute()` decides about a call before its first await.
A forced push of a protected branch asks for an approval instead of being refused, because `classifyPush()` looks
at force first; the worker's own callback, `denyWithoutHuman()`, denies every request.
The conversation is represented by its last message alone: `MayFollow` says which message may come next, so
checking every step of it checks the whole.

| state | code |
|---|---|
| `pc` | the next step of `run()`, `executeAndRecord()`, `finalize()` or the verification gate, or how the run ended |
| `last`, `size`, `answered` | the last element of `messages`, with its numbers of blocks; the `tool_use` blocks of the turn; `resultBlocks.length` |
| `count`, `expired` | `toolCallCount`; `now() >= deadline` |
| `mode`, `calls`, `ok` | whether the model or the gate makes the calls, those left, the current `outcome.ok` |
| `unrecorded` | calls begun without a `tool_calls` row |
| `failures`, `fixes` | whether `failures` is empty in `runVerificationGate()`; `fixAttempts` |
| `passed` | (history) the checks whose last run in a gate passed, since the model last called a tool that may change files (what the checks change themselves is not counted) |

**What the permission gate is not shown to do.**  `PermissionGate` tests the words of an input: sensitive paths by patterns anchored at
the start of the path as written (`permissionGate.ts:120`), protected branches by membership of a set of names (`:133`), force by
a flag of its own (`:130`).  The tools act on what the words mean: the file tools resolve the path, and `GitClient.push()` and
`diff()` hand branch and base to git as they are (`gitClient.ts:120`, `:81`), where a branch may be a refspec and a base an option.  So an input
may be routine to the gate and unusual in effect, and `git.diff`, a read tool a planner has, need not be a read.  That is less than
`packages/permissions/README.md:14` says of protected branches, sensitive paths and forced pushes, and less than
`apps/worker/README.md:44` says of `ANALYZING`, which "has no external side effects".  Which words do it is
a matter of git's syntax, which the model does not have: it keeps such an input as the class "unread", which the gate judges
as routine, and states no property of what the gate lets through.  A property over the gate's own classes would
only repeat `Classify`.

A tool that breaks may have had its effect on the files (`Execute`).  The gate's calls go through the same steps,
uncounted.  Left out: the calls of the Implementation Agent before the loop (the branch) and after a passed
gate (push, pull request, Jira), whose order `TaskPipeline` has; texts and JSON; the state transitions in between,
also in `TaskPipeline`; an assistant turn with no content at all; `linesDeleted`, which no caller passes.

### TaskStream

What a user sees of a task goes through four hands: a writer stamps a `task_events` row and commits it, a poll
reads the task's rows, sends those after its cursor and moves the cursor, the socket carries the message, and
the panel adds it to the log if the connection's task is still selected.  Each is a step.  `setInterval()` starts a poll
whether or not the last one has ended, so `Polls` are pairs of a connection and a slot.

| state | code |
|---|---|
| `clock`, `stamp`, `visible` | milliseconds; `createdAt` of an event; the rows a query sees |
| `late` | (history) events committed when one of their task, stamped no earlier, was visible already |
| `conn`, `target` | a WebSocket as its two ends see it; the `:id` in its URL |
| `cursor` | `lastEventCreatedAt` |
| `at`, `eventsRead` | how far each poll is; its `allEvents` |
| `overlapped` | (history) connections with two polls under way at once so far |
| `wire` | messages sent and not yet received |
| `selected`, `current`, `log` | `selectedTaskId`, `this.socket`, `selectedTaskEvents` (how often each event is in it) |

Between the second query's answer and the end of a poll there is no await, so comparing, sending and moving the cursor are
one step (`AnswerPoll`).  `closing` is a socket the panel has closed and the API has not noticed; messages under
way on it are still received.  Left out: the task's state in messages, and messages that carry nothing else;
an unknown task; what polls of a closed connection do, which reaches nobody.  The rest of the panel, and what the state in
a message does, are in `Panel`.

`ImplementsEventLog` hides polls, cursors, messages and connections behind `EventLog`: a log of committed events of the selected
task that only grows and has no gap.  It excepts what the code does not order: events committed late, and a task selected
again, whose earlier connection's messages pass for the new one's (`addTaskEvent()` compares task ids).

### Workspaces

`TaskPipeline` takes workspaces, commits and pushes as done or failed; `Workspaces` is what they leave behind.  A run is a
call of `runPlannerPhase()` or `runImplementationPhase()` of the task.  Runs follow each other (after a crash, or a
resume) or overlap (`resume_restarts_live_run`), each in a clone of its own, and **all push the same branch**,
whose name is computed from the issue and the plan.  A push names its branch plainly: a refspec, which the permission gate
does not tell from a name (see `AgentLoop`), could force a push or fill the branch from another, and `WorkOfOneRun` and
`RecordedWorkIsPublished` hold as far as the model writes none.

| state | code |
|---|---|
| `phase`, `pc` | which phase a run is, and its next step |
| `directory`, `container` | runs whose `mkdtemp()` directory, whose sandbox container exist |
| `on`, `commits`, `dirty` | the clone: branch checked out, what each branch has, changes not committed |
| `tested`, `fixes` | the files when the gate passed; `fixAttempts` |
| `remote`, `pr`, `recorded` | the task's branch on the remote, an open pull request for it, the run that wrote the `pull_requests` row |
| `kept` | (history) runs of which a step of creating or destroying the workspace failed, or the worker died |

A branch is the set of edits in its commits; an edit is made in one clone and commits only add, so a push is a fast-forward
iff what the remote has is part of what is pushed.  Branches other than the task's are one (`"other"`).
`HostStepFails` is a rejection outside the `try`
block, of the steps before it and of `destroy()`; inside, a run that ends for any reason goes to `destroy()` (`Leave`).
The task's row is not here: a transition refused by `transition()` is one of the reasons of `Leave`, so
the model allows every order of the runs that `TaskPipeline` does, and some more.
Left out: branches of other tasks; that a push of the base branch is refused (`AgentLoop`); conflicts that make a
checkout fail; what a build leaves in the working tree; merging or closing the pull request.

### Chat

A line the user submits is a command, and its handler (`handleMessage("chatSubmit")`, `submitChatInput()`) reads
`chatState`, asks the API, and writes back a whole chat made from the one it read.  Lines may be under way together, so
what is written may be older than what is there.

| state | code |
|---|---|
| `taskState`, `queued` | the `agent_tasks` rows (each as the number of its state changes), the trigger jobs enqueued |
| `line`, `command` | how far each line is: its request, its polls, its answer; what it asks |
| `heard`, `target` | the chat its handler read: the lines in it, its `currentTaskId` |
| `tries` | polls of `pollForTask()` that found nothing |
| `messages`, `current` | `chatState.messages` (a line with its answer is one), `chatState.currentTaskId` |
| `overlapped` | (history) lines that were under way together with another |

The API's side of a request is one step (`Serve`) and its answer another (`Answer`): what `TaskPipeline` has of a cancel
is not repeated.  `status` and `diff` are one command (`"ask"`); help, pause, resume and unknown input are another
(`"help"`), for all of them are answered at once.

### Panel

`Panel` EXTENDS `Chat` and adds the rest of the panel: the dashboard, who refreshes it, the stream and the webview.  A refresh
(`refreshDashboard()`) asks two queries that are answered independently and then replaces the tasks and the approvals; the handler of
`"ready"`, any other handler, and the timer await one each.

| state | code |
|---|---|
| `approval` | the `approvals` rows |
| `listed`, `known`, `selected` | `dashboardState.tasks`, what was last fetched of the approvals, `selectedTaskId` |
| `active`, `tasksRead`, `approvalsRead` | refreshes under way, and what their queries answered |
| `socket`, `wire` | `this.socket`, and the message under way over it |
| `panel`, `timer` | the webview's life; `refreshTimer` |
| `view` | what the last `render` message said |
| `stale`, `unseen`, `busyAtClose` | (history) answers older than the dashboard's last change; whether a refresh was silent; what was under way at `dispose()` |

A step of `Chat` is a step of the panel (`AnswerLine`, `SubmitLine`) or happens elsewhere (`ChatElsewhere`), so all of
`Chat`'s properties hold here too.  `TaskStream` has the other half of the stream.  Left out: the HTML and the webview's own script, the
configuration, warnings, fields of the DTOs that no handler looks at, messages that are not of the protocol.

## 3. Runs

| run | question | instance | result |
|---|---|---|---|
| `pipeline_auto` | the unattended pipeline, with a cancel, two crashes and a fault | no decide request, auto-approval, 2 attempts, 1 fix round | holds; 558,196 states |
| `pipeline_manual` | the pipeline that waits for a person | two decide requests, no auto-approval, 1 attempt, 1 crash, 1 fault | holds; 1,617,205 states up to symmetry |
| `event_intake` | does each event become the tasks it should, once, and is that all there is to see (`Intake`)? | the change that moves an issue to the trigger status delivered twice, another edit in the same millisecond, a later edit, a GitHub event, a direct request; 2 attempts, concurrency 1, one crash, two faults | holds; 114,406 states |
| `agent_loop` | do the loop's bounds, conversation and audit rows hold, is the verdict about the files as they are, and does it end? | both roles, turns of up to two of eleven kinds of call, at most 3 calls, 2 fix rounds, an approval callback that may answer either way | holds; 154,668 states |
| `task_stream` | does the panel show the selected task's events (`EventLog`), all of them and once? | two tasks, one with two events in two milliseconds; two connections, up to two polls of the second at once; one message under way, one failure | holds; 96,730 states |
| `workspaces` | is the host cleaned up, and is the recorded pull request what was tested? | two runs, each of either phase; two edits, one fix round, two failing host operations or crashes | holds; 1,040,976 states up to symmetry |
| `chat` | is every line answered, does it stay, and does a command reach its task? | three lines of any kind, five polls, one failing request | holds; 233,074 states |
| `panel` | what does the webview show, and what does a closed panel leave? | one line, one task, one approval, one failure; the three refreshes, the stream | holds; 477,885 states |
| `cancel_race` | is every state change an edge of the graph? | one cancel request, no crash | violated |
| `resume_restarts_live_run` | does the implementation end with the recorded pull request? | one decide request, auto-approval | violated |
| `trail_out_of_sync` | does the audit trail agree with the row? | one crash | violated |
| `panel_render` | is what changed rendered once the handlers are done? | one line, one approval | violated |

Deadlock is not checked: the system rightly stops when every request is answered and no
job is left.

**Bounds.**  Two attempts are the least that shows a retry and its exhaustion (the code has three; a third
repeats the second); `pipeline_manual` has one, so that one fault ends
a job for good, and the retries of a trigger are `pipeline_auto`'s; BullMQ's default of one stall; one fix round shows a failed gate
with and without an attempt left; two crashes allow one during the recovery from the
other; two decide requests are the least that race.  In `event_intake` two copies of the relevant event suffice
to race and to come late, the edit of the same millisecond may be recorded before or after it, and the later edit leaves the issue
in the trigger status; one crash hits the API or the worker, and two faults use up a job's attempts or fail
a delivery and an attempt.  Three lines in `chat` are the least that show a third one acting on what two overlapping ones left.
In `panel` each kind of refresh is under way at most once at a time (two of the timer would be two that overlap, as a handler's and
the timer's do), one message is under way on the connection, and one line, which may find its task or not, is what makes a
closing panel busy.  In
`agent_loop` turns of two calls against a bound of three make the bound fall inside a turn, and eleven calls cover each
branch of the registry and the gate; two fix rounds show one that follows another.  In `task_stream` two events may share
a millisecond or be committed in the other order, and two connections allow a
change of the selection, or a return to it, with a message under way; connections and events are numbered in the order of their use, which
loses nothing since all are alike but for the polls.  In `workspaces` two runs are the least that meet at a branch, two edits
let a run commit one and keep the other, or each run have one, and two failures allow a crash after a failed operation.  The theorems cover every bound.

**What the violations say.**

* `cancel_race`: the runner's check passes, the API writes `CANCELLED`, the runner writes its
  next state over it.  agent-core's README calls the check a "single-writer assumption"
  to revisit when the cancel endpoint exists; it does now, and the class comment promises legal transitions.
* `resume_restarts_live_run`: with auto-approval on, a person may still decide the approval
  row; the resume job finds the live task in progress, takes it for a
  crash and starts over.  The two implementations then meet at the pull request; the unique
  task id of `pull_requests` keeps the record single.
* `trail_out_of_sync`: the crash falls between the row and the event, in a state nothing
  continues from.
* `panel_render`: the timer's refresh replaces the dashboard and posts nothing; `protocol.ts` says the message is
  sent "whenever chat or dashboard state changes".

**What `NoTaskIsForgotten` excepts.**  When the worker has nothing left to do the task has ended, is a person's to act on, or was left
waiting for nobody, in one of four ways, which the property names.  A crash or a fault between the state `AWAITING_APPROVAL` and its
row: every later `runTask()` finds no decision and returns (`apps/worker/README.md:81` says the row is always
created).  A decision whose resume job was not enqueued: only the next boot looks at the task.  A recovery at boot that threw:
the loop logs "leaving it for the next attempt" and goes on, and the next attempt is the next boot
(`startupRecovery.ts:41`).  Attempts used up: a
task left in `CREATED` is not even looked at then, since `CREATED` is not in `NEEDS_ATTENTION_ON_BOOT`
(`startupRecovery.ts:5`).  Requests that race each other or a recovery are no fifth way, although a second decision may
replace the first (`approvalRepository.ts:92` promises otherwise; `decide()` finds and updates in two statements).
`RecordedEventBecomesTask` names its exceptions in the same way: attempts used up, a failure between recording and queueing, and
another change of the issue in the same millisecond recorded in its stead.

**Fairness** (`FairSpec`, used for `TriggerSettles`): weak fairness of each run's
steps (every await answers or rejects: the LLM loop has a deadline and the clients time
out or fail), of BullMQ handing out a waiting job, of the worker being started again after it died,
and of an update and an enqueue following a decision's find.  No fairness for crashes, faults or people.
`EventIntake`'s `FairSpec`, used for `RecordedEventBecomesTask`, asks less: while there is an event to queue, a job to start or a handler to continue, or a dead worker, one of these
steps happens (`Progress`); it does not say
which delivery or job is next.  Nothing makes a sender deliver an event, or deliver it again.
`AgentLoop`'s `FairSpec`, used for `RunEnds`, is weak fairness of the run's steps as a whole: each await settles.
It does not say that time passes, so the run ends by its count even if the deadline never comes.
`TaskStream`'s `FairSpec`, used for `EventsArrive`: the interval starts a poll in every slot again and again, queries answer or
reject, and frames arrive.  No fairness for writers, users, accepting a connection or losing it.
`Chat`'s, used for `EveryLineIsAnswered`, is weak fairness of each line's steps: requests are answered or reject, and the continuations
run.  A worker need not create a task in time.  `Panel`'s, used for `DashboardCatchesUp`, is weak fairness of the timer and of the
refreshes as a whole; nothing is asked of the stream or of the order of answers.
Shell commands in the sandbox have no timeout in the code; that they end is assumed.

## 4. Proofs

TLAPS checks, for every set of decide and cancel requests, every bound and both
settings of auto-approval, under `PipelineAssumption` alone:

* `Invariance`: `Spec => []IInv`, and from it `TypeCorrect`, `ReviewIsBacked`, `PlanIsThere`,
  `OneApproval` and `ConsentComesFirst`;
* `NothingForgotten`: `Spec => []NoTaskIsForgotten`;
* `PullRequestIsFinal`: `PullRequestEndsImplementation`, when there are no resume jobs
  (with one it is violated, see `resume_restarts_live_run`);
* `SingleWriterIsLegal`: `StateChangesAreLegal`, when there are no cancel requests and no resume jobs, whatever crashes or fails;
  and `SingleWriterKeepsTrail`: `TrailInSync`, when nothing crashes or fails either.  These two are the promises of the class
  comment that `cancel_race` and `trail_out_of_sync` refute; the theorems say that the assumptions it makes are
  enough for them, and the runs drop one assumption each;
* `Refinement`: `Spec => ImplementsDelivery`.

And for all sets of events, requests and deliveries and every bound, under `IntakeAssumption` alone:
`TypeCorrect`, `OneTask` and `OnlyTriggers` (the properties `TypeOK`, `OneTaskPerTrigger` and `OnlyTriggersBecomeTasks`), `NoSecondJob` (a
late copy of an event that has its task adds no job), `Refinement` (`Spec => ImplementsIntake`),
and `EvaluateIsEntering`: for any fields and any configuration, the rule on the changelog holds exactly
of the changes that make an issue meet a condition it did not meet.

None of the safety invariants is inductive: a runner about to write a state
must already be entitled to it.  `IInv` says so, in five parts.
`BaseInv` adds to type correctness who may be running (`SlotInv`: a run exists only while its job is held and the worker
is in the right mode; a resume job exists only after its decision) and which
transition goes with which step (`EdgeInv`).  `PlanInv` and `PullRequestInv` say what
a program counter knows about the rows: a run past planning has a plan, a run past
recording has a pull request.  `ApprovalInv` is the subtle one: an approval row is
created only by a run before `AWAITING_APPROVAL`, and as long as there is no row
no resume job can exist, so **that run is the only one** (`OneRunner`); once there is a
row, nobody can take the task back before `AWAITING_APPROVAL`.  `ConsentInv` ties
every implementing run and every "approved" row to a decide request that wrote it, and
`ConsentStays` shows consent is never lost.  `FinalInv` adds, without resume jobs, that at most one
runner exists (`SoleRunner`) and that a recorded pull request leaves it only the closing transitions.  `WriterInv` is the
single-writer assumption itself: where only the trigger job and the boot recovery run, the row still has the state a runner
checked when it writes the next.

`NothingForgotten` needs to know, at every moment, who will take the task further.  Up to `ANALYZING` that is the
trigger job (`StartInv`); from `PLANNED` on, a job BullMQ has yet to hand out, a run that will not stop here (`Continues`), the
next boot, or a person (`HeldInv`).  A person can act only if there is a row to decide: it says "pending" until a request
decides (`DecisionInv`), and a task that awaits approval has it, or a run about to create it, unless something broke
(`AskInv`).  At rest nothing of this is left but the person and the four ways above.

`Refinement` maps `planned` to `plan`, `asked` to `approvals # <<>>`, `consent` to `Consent`,
`opened` to `githubPr`, `recorded` to `prRow` and `underReview` to the two review states; each step is
a step of `Delivery` or a stutter.

In `EventIntakeProofs`, `IInv` says who may enqueue.  A trigger is `Pristine` (no job, no task) until its only
job is added: an event has at most one delivery that wrote its row and has not enqueued yet (`OneEnqueuer`),
and while there is one the event is pristine (`DeliveryInv`).  So every job of a trigger carries the id 1,
an earlier attempt's task carries it too, and the lookup cannot miss it (`TriggerInv`).  Whatever is queued was judged to trigger
work by some change of that identity, which `EvaluateIsEntering` turns into `OnlyTriggersBecomeTasks`.
For `Refinement`, `StageInv` adds that a handler past `CreateTask` has its task (`HasTask`), so no job is removed before it, and that
a delivery about to enqueue has a relevant row (`RelevantRow`).  Then each step moves one trigger one stage on, a crash
moves those in its hands to "lost" or "failed", and the rest, copies and retries included, stutter.

In `AgentLoopProofs`, under `LoopAssumption` alone (any bounds, tool names and turns), `IInv` counts a turn
in progress: the calls left and the calls answered add up to the turn's size, and the count has grown by no more than
the calls begun since it was last below the bound (`TurnInv`).  The first gives `ConversationLegal`, the second
`BoundHolds`.  `ControlInv` ties the audit rows to the program counter (`TrailComplete`).  `GateInv` is about a gate
in progress: no check is called twice, and among those already called a failure was seen iff one is not in `passed`; when none is left that is
`VerdictIsSound`.

In `TaskStreamProofs`, under `StreamAssumption` alone (any tasks, events, connections, overlap and bounds), each property
has a layer of its own.  `IInv` says for which task a connection reads and sends, which gives `SelectionHolds` (only events of the selected task are shown).
`SkipInv` adds that what a poll has read is closed downward (`Closed`): with an event it has every earlier
one of the task, except those committed late.  So even a cursor that an older poll moved back, or a newer one forward, passes nothing unsent
(`CursorPassesNothing`).  `OnceInv` follows a connection without overlap: one poll at a time (`OnePoll`), so the cursor only
grows and no two messages share an event (`SentOnce`), nor does the log with what is under way (`LoggedOnce`);
hence `OverlapAloneRepeats`.  `OrderInv` is about what is shown when: while the selected task is selected for the first time
(`FirstTime`), what is committed up to an event is in the log before it, or in its message or one sent before it on the same socket (`InOrder`).  By
`SkipHolds` what a poll leaves out was sent by an earlier one, so sending keeps it, and
receiving in order makes it `EventLog`'s `NoGap`: `LogRefinement`.

In `WorkspacesProofs`, under `WorkspacesAssumption` alone (any runs, edits, fix rounds and failures), `HostInv` says what exists on the
host at each step of a run (`CleanedUp`, `DirectoryOutlivesContainer`).  `WorkInv` says that what was made in two clones is
disjoint (`MadeInv`) and that the remote's branch is part of one run's (`AuthorInv`): `OneRunsWork`.  `PublishInv`
says that past its gate a run's clone stays what was tested, and what it pushed stays on the remote: another
run would have to push over it, and `PushSparesOthers` shows from `WorkInv` that its push is no fast-forward.  That gives
`RecordIsTested`.  A run without a commit is excepted there: what it pushes is empty and anyone may fill it.

In `ChatProofs`, under `ChatAssumption` alone (any lines, commands, polls and failures), `TypedInOrder` says that lines are typed in
order, and that of two under way together both are in `overlapped`.  So a line that never overlapped was answered before any later
one was typed, and every later handler read a chat that has it (`KeptByAll`: `AnsweredStays`) and its task (`CurrentInv`:
`CancelIsAimed`).  `TasksExist` follows `currentTaskId` from a poll that found its task through every chat read and written back (`TargetsExist`).

In `PanelProofs`, each step of the panel is a step of `Chat` or leaves the chat alone (`ImplementsChat`), so `ChatInv` holds there.
`DashboardInv` says that neither the dashboard nor an answer under way is ever ahead of the API, and that an answer or message that
is not in `stale` is not behind the dashboard (`AnswersInv`, `WireInv`): hence `GoesBackOnlyIfStale`, and with `ViewType`, `TypeCorrect`.
`QuietInv` strengthens `ClosedPanelIsQuiet` by what is still to come of a closed panel: a first refresh that may set the timer, a
line that may open a connection.  `ViewIsBehindForAReason` is inductive as it stands.

Only model-checked: `TriggerSettles`, `RecordedEventBecomesTask`, `RunEnds`, `EventsArrive`, `EveryLineIsAnswered` and
`DashboardCatchesUp` (liveness is beyond the prover).  Of the properties the violation runs refute, `PullRequestEndsImplementation`,
`StateChangesAreLegal` and `TrailInSync` are proved where their assumptions hold; `RenderedWhenSettled` is not.

## 5. Plan

1. `TaskState`, `TaskPipeline`, `Delivery`, proofs (done).
2. `EventIntake`, proofs (done).
3. `AgentLoop`, `ToolGate`, proofs (done).
4. `TaskStream`, proofs (done).
5. `Workspaces`, proofs (done).
6. `Chat`, `Panel`, `JiraTrigger`, proofs (done).
7. `Intake`, `EventLog` and their refinements, `NothingForgotten`, the single-writer theorems (done).
8. Open: an abstract specification of a workspace's life (`Workspaces`) and of the conversation (`AgentLoop`), each with its
   refinement.

## 6. Not modelled

* The clients of GitHub, Jira and the LLM: one request each, translated to and from the service's format.  That a call may fail, and may
  have had its effect when it does, is in the modules that make it.
* The best-effort Jira link after a recorded pull request: nothing in the program reads what it does.  A crash before it leaves the
  issue unlinked for good, since recovery goes straight to review.
* `TaskStateMachine.resume()` and `previousState`: nothing calls the one, and only it reads the other.
* The text of prompts, plans, pull requests and messages; context building; the conversion of Jira's documents to text.
* The webview's HTML and script, which show what `Panel`'s `view` has and post the messages its handlers receive.
* `packages/playwright`, an empty package, and the Docker and compose files.
