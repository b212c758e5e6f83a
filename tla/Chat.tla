-------------------------------- MODULE Chat --------------------------------
(***************************************************************************)
(* The chat of the VS Code extension's panel.  A line the user submits is  *)
(* parsed into a command that asks the API, and its handler, which read    *)
(* chatState before, writes it back when the answer is there: lines may be *)
(* under way together, and each goes on from the chat it found.            *)
(*                                                                         *)
(* The task an `implement` line asks for has the number of the line; the   *)
(* state of a task is the number of its state changes, 0 before it exists. *)
(***************************************************************************)
EXTENDS Naturals

CONSTANTS
    Lines,                  \* submissions, numbered in the order they are typed
    Commands,               \* the kinds of command that are typed
    OtherTasks, NoTask,     \* tasks no line asked for, null
    FinalState,             \* the terminal state of a task
    PollAttempts,           \* DEFAULT_POLL_OPTIONS.attempts
    MaxFaults               \* bound: requests that fail

AllCommands == {"implement", "ask", "cancel", "help"}   \* ask: `status` and `diff`

ASSUME ChatAssumption ==
    /\ Lines \subseteq Nat /\ NoTask \notin Lines \cup OtherTasks
    /\ Commands \subseteq AllCommands
    /\ FinalState \in Nat \ {0} /\ PollAttempts \in Nat \ {0} /\ MaxFaults \in Nat

Tasks == Lines \cup OtherTasks

VARIABLES
    taskState,      \* the agent_tasks rows
    queued,         \* lines whose agent-trigger job is enqueued
    line,           \* progress of each line
    command,
    heard, target,  \* the chatState its handler read: the lines in it, currentTaskId
    tries,          \* its polls that found no task
    messages,       \* chatState.messages: the lines in it, with their answers
    current,        \* chatState.currentTaskId
    overlapped,     \* history: lines that were under way together with another
    faults

apiVars  == <<taskState, queued>>
lineVars == <<line, command, heard, target, tries, overlapped>>
chatVars == <<messages, current>>
chat     == <<apiVars, lineVars, chatVars, faults>>

ChatInit ==
    /\ taskState = [t \in Tasks |-> 0] /\ queued = {}
    /\ line = [s \in Lines |-> "untyped"] /\ command = [s \in Lines |-> "help"]
    /\ heard = [s \in Lines |-> {}] /\ target = [s \in Lines |-> NoTask]
    /\ tries = [s \in Lines |-> 0] /\ overlapped = {}
    /\ messages = {} /\ current = NoTask /\ faults = 0

UnderWay(s) == line[s] \in {"request", "poll", "reply", "error"}
Answered(s) == line[s] \in {"done", "gaveUp", "failed"}

-----------------------------------------------------------------------------
(* The tasks: workers, and other clients                                   *)

\* A worker takes the trigger job and creates the task, or a task changes its state.
Advance(t) ==
    /\ taskState[t] < FinalState
    /\ taskState[t] > 0 \/ t \in queued \cup OtherTasks
    /\ taskState' = [taskState EXCEPT ![t] = @ + 1]
    /\ UNCHANGED <<queued, lineVars, chatVars, faults>>

-----------------------------------------------------------------------------
(* The handler of "chatSubmit"                                             *)

\* Answered without a request: help, pause, resume and unknown input, and any other
\* command about a task when there is none.
IsLocal(c) == c = "help" \/ (c \in {"ask", "cancel"} /\ current = NoTask)

\* The user types a line.  Its handler reads chatState, and sends a request or answers.
Submit(s, c) ==
    /\ line[s] = "untyped" /\ \A q \in Lines : q < s => line[q] # "untyped"
    /\ command' = [command EXCEPT ![s] = c]
    /\ overlapped' = IF \E q \in Lines : UnderWay(q)
                     THEN overlapped \cup {s} \cup {q \in Lines : UnderWay(q)} ELSE overlapped
    /\ IF IsLocal(c)
       THEN /\ line' = [line EXCEPT ![s] = "done"]
            /\ messages' = messages \cup {s}
            /\ UNCHANGED <<heard, target>>
       ELSE /\ line' = [line EXCEPT ![s] = "request"]
            /\ heard' = [heard EXCEPT ![s] = messages]
            /\ target' = [target EXCEPT ![s] = current]
            /\ UNCHANGED messages
    /\ UNCHANGED <<apiVars, tries, current, faults>>

\* POST /tasks: the trigger job of an `implement` line is enqueued, and its task polled for.
Enqueue(s) ==
    /\ command[s] = "implement"
    /\ queued' = queued \cup {s}
    /\ line' = [line EXCEPT ![s] = "poll"]
    /\ UNCHANGED taskState

\* GET of the task or its pull request.
LookUp(s) ==
    /\ command[s] = "ask"
    /\ line' = [line EXCEPT ![s] = "reply"]
    /\ UNCHANGED apiVars

\* POST /tasks/:id/cancel: refused when the task has ended.
Cancel(s) ==
    /\ command[s] = "cancel"
    /\ IF taskState[target[s]] < FinalState
       THEN /\ taskState' = [taskState EXCEPT ![target[s]] = FinalState]
            /\ line' = [line EXCEPT ![s] = "reply"]
       ELSE /\ line' = [line EXCEPT ![s] = "error"]
            /\ UNCHANGED taskState
    /\ UNCHANGED queued

\* The API handles the request of a line.
Serve(s) ==
    /\ line[s] = "request"
    /\ Enqueue(s) \/ LookUp(s) \/ Cancel(s)
    /\ UNCHANGED <<command, heard, target, tries, overlapped, chatVars, faults>>

PollLeftInclusive(s) == tries[s] <= PollAttempts     \* mutant: one attempt too many
PollLeft(s) == tries[s] < PollAttempts

\* The trigger of a line has produced its task.
Found(s) == taskState[s] > 0

\* pollForTask() asks for it.
PollTask(s) ==
    /\ line[s] = "poll" /\ PollLeft(s)
    /\ \/ /\ Found(s)
          /\ line' = [line EXCEPT ![s] = "reply"]
          /\ UNCHANGED tries
       \/ /\ ~Found(s)
          /\ tries' = [tries EXCEPT ![s] = @ + 1]
          /\ UNCHANGED line
    /\ UNCHANGED <<apiVars, command, heard, target, overlapped, chatVars, faults>>

\* The request or a poll rejects; of a POST, the API may have done what it asked for.
RequestFails(s) ==
    /\ line[s] \in {"request", "poll", "reply"} /\ faults < MaxFaults
    /\ faults' = faults + 1
    /\ line' = [line EXCEPT ![s] = "error"]
    /\ UNCHANGED <<apiVars, command, heard, target, tries, overlapped, chatVars>>

ReadyWhenFound(s) == line[s] \in {"reply", "error"}   \* mutant: it waits for the task

\* The handler may go on: it has its answer, an error, or no more polls to make.
Ready(s) == line[s] \in {"reply", "error"} \/ (line[s] = "poll" /\ ~PollLeft(s))

Outcome(s) == CASE line[s] = "reply" -> "done" [] line[s] = "poll" -> "gaveUp"
                [] OTHER -> "failed"

\* mutant: the catch goes on from the chat without the user's line
LinesWithoutFailed(s) == IF line[s] = "error" THEN heard[s] ELSE heard[s] \cup {s}
LinesAfter(s) == heard[s] \cup {s}

\* mutants: only the first task becomes current; the task need not have been found
FirstTask(s) == IF command[s] = "implement" /\ line[s] = "reply" /\ target[s] = NoTask
                THEN s ELSE target[s]
TaskAskedFor(s) == IF command[s] = "implement" THEN s ELSE target[s]

TaskAfter(s) == IF command[s] = "implement" /\ line[s] = "reply" THEN s ELSE target[s]

\* chatState becomes what the handler made of the one it read.
Answer(s) ==
    /\ Ready(s)
    /\ messages' = LinesAfter(s) /\ current' = TaskAfter(s)
    /\ line' = [line EXCEPT ![s] = Outcome(s)]
    /\ heard' = [heard EXCEPT ![s] = {}] /\ target' = [target EXCEPT ![s] = NoTask]
    /\ tries' = [tries EXCEPT ![s] = 0]
    /\ UNCHANGED <<apiVars, command, overlapped, faults>>

-----------------------------------------------------------------------------
LineStep(s) == Serve(s) \/ PollTask(s) \/ Answer(s)

ChatNext ==
    \/ \E t \in Tasks : Advance(t)
    \/ \E s \in Lines : LineStep(s) \/ RequestFails(s) \/ \E c \in Commands : Submit(s, c)

ChatSpec == ChatInit /\ [][ChatNext]_chat

(* A request is answered or rejects, and the promise's continuation runs.   *)
(* The user need not type, and a worker need not create a task in time.     *)
ChatFairness == \A s \in Lines : WF_chat(LineStep(s))
FairChatSpec == ChatSpec /\ ChatFairness

-----------------------------------------------------------------------------
(* Properties                                                              *)

\* Type correctness; only lines under way hold on to a chat they read.
ChatTypeOK ==
    /\ taskState \in [Tasks -> 0..FinalState] /\ queued \subseteq Lines
    /\ line \in [Lines -> {"untyped", "request", "poll", "reply", "error",
                           "done", "gaveUp", "failed"}]
    /\ command \in [Lines -> AllCommands]
    /\ heard \in [Lines -> SUBSET Lines] /\ target \in [Lines -> Tasks \cup {NoTask}]
    /\ tries \in [Lines -> 0..PollAttempts]
    /\ messages \subseteq Lines /\ current \in Tasks \cup {NoTask}
    /\ overlapped \subseteq Lines /\ faults \in 0..MaxFaults
    /\ \A s \in Lines : ~UnderWay(s) => heard[s] = {} /\ target[s] = NoTask /\ tries[s] = 0

\* A line that was answered, be it by an error, stays in the chat, as long as it was never
\* under way together with another: nothing a later handler read can be older than it.
AnsweredLineStays ==
    \A s \in Lines : Answered(s) /\ s \notin overlapped => s \in messages

\* `cancel` reaches the task of the last `implement` before it, provided that this line
\* found its task and was not under way together with another.  Otherwise it cancels
\* whichever task was current before, as after five polls that came too early.
CancelReachesLastTask ==
    \A s, q \in Lines :
        /\ UnderWay(s) /\ command[s] = "cancel"
        /\ q < s /\ command[q] = "implement" /\ line[q] = "done" /\ q \notin overlapped
        /\ \A r \in Lines : q < r /\ r < s => command[r] # "implement"
        => target[s] = q

\* The task a line asks about or cancels exists: the chat takes no task as current that the
\* polls did not find, whatever fails and in whatever order lines are answered.
TargetExists == \A s \in Lines : target[s] # NoTask => taskState[target[s]] > 0

\* Each line is answered, after five polls at the latest.
EveryLineIsAnswered == \A s \in Lines : UnderWay(s) ~> Answered(s)
=============================================================================
