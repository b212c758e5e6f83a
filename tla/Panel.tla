------------------------------- MODULE Panel -------------------------------
(***************************************************************************)
(* The panel of the VS Code extension: Chat together with the dashboard,   *)
(* its task list and pending approvals, the periodic refresh, the task     *)
(* states that the stream of the selected task brings, rendering and       *)
(* closing.  A handler is cut where it awaits an answer of the API.        *)
(*                                                                         *)
(* TaskStream has the other half of the stream: the events, the polls, and *)
(* the messages of connections that the panel has closed.                  *)
(***************************************************************************)
EXTENDS Chat

CONSTANT Approvals

\* Who awaits refreshDashboard(), each at most once at a time: the handler of "ready",
\* another handler, or nobody.
Refreshes == {"ready", "handler", "timer"}

VARIABLES
    approval,       \* approvals rows: 0 not there, 1 pending, 2 decided
    listed,         \* dashboardState.tasks: the state of each, 0 if it is not listed
    known,          \* approvals as last fetched; pendingApprovals are those with 1
    selected,       \* selectedTaskId
    breaks,         \* queries that failed, connections that broke
    active,         \* refreshes under way
    tasksRead, approvalsRead,  \* what the two queries of a refresh answered, if they have
    socket,         \* this.socket, to the selected task: none, open or closed
    wire,           \* the state in the message under way over it, or 0
    panel, timer,
    view,           \* what the webview shows
    stale,          \* history: answers and messages older than the dashboard's last change
    unseen,         \* history: since the last render the timer fetched, or a refresh failed
    busyAtClose     \* history: what was under way when the panel was closed

dashVars   == <<listed, known, selected, stale>>
fetchVars  == <<active, tasksRead, approvalsRead>>
socketVars == <<socket, wire>>
closeVars  == <<panel, timer, busyAtClose>>
viewVars   == <<view, unseen>>
vars == <<chat, approval, dashVars, fetchVars, socketVars, closeVars, viewVars, breaks>>

NoTasks == [t \in Tasks |-> 0]
NoApprovals == [a \in Approvals |-> 0]
Pending(k) == {a \in Approvals : k[a] = 1}
Shown(m, l, s, k) == [messages |-> m, listed |-> l, selected |-> s, pending |-> Pending(k)]
Blank == Shown({}, NoTasks, NoTask, NoApprovals)

Init ==
    /\ ChatInit
    /\ approval = NoApprovals
    /\ listed = NoTasks /\ known = NoApprovals /\ selected = NoTask
    /\ active = {} /\ tasksRead = [r \in Refreshes |-> {}]
    /\ approvalsRead = [r \in Refreshes |-> {}]
    /\ socket = "none" /\ wire = 0 /\ breaks = 0
    /\ panel = "loading" /\ timer = "unset"
    /\ view = Blank /\ stale = {} /\ unseen = FALSE /\ busyAtClose = {}

\* render(): a closed webview takes no message.
Render ==
    IF panel = "closed" THEN UNCHANGED viewVars
    ELSE view' = Shown(messages', listed', selected', known') /\ unseen' = FALSE

FaultLeft == faults + breaks < MaxFaults
Break == FaultLeft /\ breaks' = breaks + 1

\* Everything that was asked or sent before the dashboard changes is stale from then on.
ChangeDashboard ==
    stale' = active' \cup {"stream" : n \in {m \in {wire'} : m > 0}}

-----------------------------------------------------------------------------
(* The API: what it holds, and what it sends                               *)

RequestApproval(a) == approval[a] = 0 /\ approval' = [approval EXCEPT ![a] = 1]
Decide(a)          == approval[a] = 1 /\ approval' = [approval EXCEPT ![a] = 2]
AlreadyDecided(a)  == approval[a] = 2 /\ UNCHANGED approval

\* The worker asks for an approval; another client decides it.
MoveApproval(a) ==
    /\ RequestApproval(a) \/ Decide(a)
    /\ UNCHANGED <<chat, dashVars, fetchVars, socketVars, closeVars, viewVars, breaks>>

\* A poll of the stream finds new events or another state: its message has both.
SendState ==
    /\ socket = "open" /\ wire = 0 /\ wire' = taskState[selected]
    /\ UNCHANGED <<chat, approval, dashVars, fetchVars, socket, closeVars, viewVars, breaks>>

-----------------------------------------------------------------------------
(* refreshDashboard()                                                      *)

StartRefresh(r) ==
    /\ r \in Refreshes \ active
    /\ active' = active \cup {r}
    /\ UNCHANGED <<tasksRead, approvalsRead>>

ReadTasks(r) ==
    /\ r \in active /\ tasksRead[r] = {}
    /\ tasksRead' = [tasksRead EXCEPT ![r] = {taskState}]
    /\ UNCHANGED <<chat, approval, dashVars, active, approvalsRead, socketVars,
                   closeVars, viewVars, breaks>>

ReadApprovals(r) ==
    /\ r \in active /\ approvalsRead[r] = {}
    /\ approvalsRead' = [approvalsRead EXCEPT ![r] = {approval}]
    /\ UNCHANGED <<chat, approval, dashVars, active, tasksRead, socketVars,
                   closeVars, viewVars, breaks>>

EndRefresh(r) ==
    /\ active' = active \ {r}
    /\ tasksRead' = [tasksRead EXCEPT ![r] = {}]
    /\ approvalsRead' = [approvalsRead EXCEPT ![r] = {}]

\* mutants: applyTaskList() keeps the entries it has; it leaves ended tasks out; only the
\* first refresh renders
MergeTasks(l) == [t \in Tasks |-> IF listed[t] > 0 THEN listed[t] ELSE l[t]]
OpenTasks(l) == [t \in Tasks |-> IF l[t] < FinalState THEN l[t] ELSE 0]
FirstRenders(r) == r = "ready"

ApplyTaskList(l) == l
Renders(r) == r # "timer"

\* Both answers are there: the dashboard takes them, and whoever awaited the refresh goes on.
\* The first one sets the timer, panel or not.
ApplyRefresh(r) ==
    /\ r \in active
    /\ \E l \in tasksRead[r], k \in approvalsRead[r] : listed' = ApplyTaskList(l) /\ known' = k
    /\ EndRefresh(r)
    /\ timer' = IF r = "ready" THEN "set" ELSE timer
    /\ UNCHANGED <<chat, approval, selected, socketVars, panel, busyAtClose, breaks>>
    /\ ChangeDashboard
    /\ IF Renders(r) THEN Render
       ELSE unseen' = (unseen \/ (r = "timer" /\ panel # "closed")) /\ UNCHANGED view

\* A query rejects, and with it whoever awaited the refresh: nothing is rendered, and the
\* timer is not set if it was the first.
RefreshFails(r) ==
    /\ r \in active
    /\ Break
    /\ EndRefresh(r)
    /\ unseen' = (panel # "closed") /\ stale' = stale \ {r}
    /\ UNCHANGED <<chat, approval, listed, known, selected,
                   socketVars, closeVars, view>>

-----------------------------------------------------------------------------
(* Handlers                                                                *)

\* selectAndStreamTask(): the connection before is closed, one to the task is opened.
SelectAndStreamTask(t) ==
    /\ selected' = t /\ socket' = "open" /\ wire' = 0
    /\ stale' = stale \ {"stream"}

\* "ready": the webview's script has run.
Load ==
    /\ panel = "loading" /\ panel' = "open"
    /\ StartRefresh("ready")
    /\ UNCHANGED <<chat, approval, dashVars, socketVars, timer, busyAtClose, viewVars, breaks>>

\* "chatSubmit" up to its request, or all of it if it makes none.
SubmitLine(s, c) ==
    /\ panel = "open"
    /\ Submit(s, c)
    /\ UNCHANGED <<approval, dashVars, fetchVars, socketVars, closeVars, breaks>>
    /\ IF IsLocal(c) THEN Render ELSE UNCHANGED viewVars

\* "chatSubmit" from there on: a task other than the one before is selected.
AnswerLine(s) ==
    /\ Answer(s)
    /\ UNCHANGED <<approval, listed, known, closeVars, breaks>>
    /\ IF current' \notin {NoTask, target[s]}
       THEN SelectAndStreamTask(current') /\ StartRefresh("handler") /\ UNCHANGED viewVars
       ELSE UNCHANGED <<selected, stale, fetchVars, socketVars>> /\ Render

SelectTask(t) ==
    /\ panel = "open" /\ view.listed[t] > 0
    /\ SelectAndStreamTask(t)
    /\ UNCHANGED <<chat, approval, listed, known, fetchVars, closeVars, breaks>>
    /\ Render

\* "decideApproval", clicked at an approval the webview shows: the API decides it, and the
\* dashboard is refreshed; of one that is decided already it says so, and the handler rejects.
DecideApproval(a) ==
    /\ panel = "open" /\ a \in view.pending
    /\ \/ Decide(a) /\ StartRefresh("handler")
       \/ AlreadyDecided(a) /\ UNCHANGED fetchVars
    /\ UNCHANGED <<chat, dashVars, socketVars, closeVars, viewVars, breaks>>

Tick ==
    /\ timer = "set"
    /\ StartRefresh("timer")
    /\ UNCHANGED <<chat, approval, dashVars, socketVars, closeVars, viewVars, breaks>>

\* applyStreamUpdate() of a message: the state goes into the list if the task is there.
ReceiveUpdate ==
    /\ wire > 0 /\ wire' = 0
    /\ listed' = IF listed[selected] > 0 THEN [listed EXCEPT ![selected] = wire] ELSE listed
    /\ UNCHANGED <<chat, approval, known, selected, fetchVars, socket, closeVars, breaks>>
    /\ IF listed' = listed THEN stale' = stale \ {"stream"} ELSE ChangeDashboard
    /\ Render

LoseConnection ==
    /\ socket = "open" /\ socket' = "closed" /\ wire' = 0
    /\ Break
    /\ stale' = stale \ {"stream"}
    /\ UNCHANGED <<chat, approval, listed, known, selected, fetchVars,
                   closeVars, viewVars>>

TimerAfterClose == timer            \* mutant: dispose() leaves the timer

ClearedTimer == IF timer = "set" THEN "cleared" ELSE timer
ClosedSocket == IF socket = "open" THEN "closed" ELSE socket

\* dispose(); the webview is gone with what it showed.
Close ==
    /\ panel # "closed" /\ panel' = "closed"
    /\ timer' = ClearedTimer /\ socket' = ClosedSocket /\ wire' = 0
    /\ stale' = stale \ {"stream"}
    /\ busyAtClose' = (active \cap {"ready"}) \cup {"chat" : s \in {q \in Lines : UnderWay(q)}}
    /\ UNCHANGED <<chat, approval, listed, known, selected, fetchVars, breaks>>
    /\ view' = Blank /\ unseen' = FALSE

\* The steps of Chat that are not the panel's: the panel sees nothing of them.
ChatElsewhere ==
    /\ \/ \E t \in Tasks : Advance(t)
       \/ \E s \in Lines : Serve(s) \/ PollTask(s)
       \/ FaultLeft /\ \E s \in Lines : RequestFails(s)
    /\ UNCHANGED <<approval, dashVars, fetchVars, socketVars, closeVars, viewVars, breaks>>

-----------------------------------------------------------------------------
RefreshStep(r) == ReadTasks(r) \/ ReadApprovals(r) \/ ApplyRefresh(r) \/ RefreshFails(r)
StreamStep == SendState \/ ReceiveUpdate \/ LoseConnection

Next ==
    \/ Load \/ Tick \/ Close \/ ChatElsewhere \/ StreamStep
    \/ \E s \in Lines : AnswerLine(s) \/ \E c \in Commands : SubmitLine(s, c)
    \/ \E t \in Tasks : SelectTask(t)
    \/ \E a \in Approvals : MoveApproval(a) \/ DecideApproval(a)
    \/ \E r \in Refreshes : RefreshStep(r)

Spec == Init /\ [][Next]_vars

(* The timer goes off again and again, and a query is answered or rejects.  *)
(* Nothing is asked of the stream, nor of the order of the answers.         *)
Fairness == WF_vars(Tick) /\ WF_vars(\E r \in Refreshes : RefreshStep(r))

FairSpec == Spec /\ Fairness

-----------------------------------------------------------------------------
(* Properties                                                              *)

\* Type correctness.
TypeOK ==
    /\ ChatTypeOK
    /\ approval \in [Approvals -> 0..2] /\ known \in [Approvals -> 0..2]
    /\ listed \in [Tasks -> 0..FinalState] /\ selected \in Tasks \cup {NoTask}
    /\ breaks \in 0..MaxFaults /\ active \subseteq Refreshes
    /\ tasksRead \in [Refreshes -> SUBSET [Tasks -> 0..FinalState]]
    /\ approvalsRead \in [Refreshes -> SUBSET [Approvals -> 0..2]]
    /\ socket \in {"none", "open", "closed"} /\ wire \in 0..FinalState
    /\ panel \in {"loading", "open", "closed"} /\ timer \in {"unset", "set", "cleared"}
    /\ view \in [messages : SUBSET Lines, listed : [Tasks -> 0..FinalState],
                 selected : Tasks \cup {NoTask}, pending : SUBSET Approvals]
    /\ stale \subseteq Refreshes \cup {"stream"} /\ unseen \in BOOLEAN
    /\ busyAtClose \subseteq {"ready", "chat"}

\* The list and the approvals go back to an earlier state only when an answer or a message
\* arrives that was begun before their last change: no other order of the API's answers
\* shows a task in a state it has left, or offers a decided approval again.
OnlyStaleAnswersGoBack ==
    [][ \/ \E x \in stale : x \notin stale'
        \/ /\ \A t \in Tasks : listed[t] <= listed'[t]
           /\ \A a \in Approvals : known[a] <= known'[a] ]_vars

\* Once the tasks and approvals come to rest, so does the list, as long as the timer is
\* there: no late answer leaves the dashboard behind for good.
DashboardCatchesUp == <>[](timer = "set" => listed = taskState /\ known = approval)

\* What the webview shows is the panel's state, except while a submitted line's refresh is
\* under way, and after a refresh that rejected or that the timer began.
ViewIsBehindForAReason ==
    \/ view = Shown(messages, listed, selected, known)
    \/ unseen \/ "handler" \in active \/ panel = "closed"

\* A closed panel leaves a timer behind only if it was closed during its first refresh, and
\* a connection only if a line was under way.
ClosedPanelIsQuiet ==
    panel = "closed" => /\ timer = "set" => "ready" \in busyAtClose
                        /\ socket = "open" => "chat" \in busyAtClose

\* "Sent host -> webview whenever chat or dashboard state changes" (protocol.ts): when no
\* handler is under way, the webview shows the panel's state.
RenderedWhenSettled ==
    panel = "open" /\ active = {} /\ faults + breaks = 0
        => view = Shown(messages, listed, selected, known)
=============================================================================
