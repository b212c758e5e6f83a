----------------------------- MODULE TaskStream -----------------------------
(***************************************************************************)
(* The event log of the selected task: task_events rows as their writers   *)
(* commit them, one API handler per WebSocket of GET /tasks/:id/stream     *)
(* that polls them, and the panel that selects a task and shows what       *)
(* arrives.  setInterval() does not wait for a poll to end, so the polls   *)
(* of a connection may overlap.                                            *)
(*                                                                         *)
(* Messages without new events, which carry a task's state alone, change   *)
(* nothing here and are left out.                                          *)
(***************************************************************************)
EXTENDS Naturals, Sequences

CONSTANTS
    Tasks, NoTask,
    Events, TaskOf,              \* task_events rows to be, in insert order; the task of each
    Connections, Polls,          \* WebSockets, in order; <<c, n>>: polls of c under way at once
    MaxTime, MaxWire,            \* bounds: milliseconds, unread messages of a connection
    MaxFaults                    \* bound on failing queries and lost connections

ASSUME StreamAssumption ==
    /\ NoTask \notin Tasks
    /\ Events \subseteq Nat /\ TaskOf \in [Events -> Tasks]
    /\ Connections \subseteq Nat \ {0} /\ Polls \subseteq Connections \X Nat
    /\ MaxTime \in Nat \ {0} /\ MaxWire \in Nat /\ MaxFaults \in Nat

VARIABLES
    clock,
    stamp,        \* createdAt of each event, 0 before its insert began
    visible,      \* committed events
    late,         \* events committed when one of their task, stamped no earlier, was visible
    conn,         \* unused, connecting, open, closing (by the panel), closed
    target,       \* the task a connection was made for
    cursor,       \* lastEventCreatedAt, 0 for null
    at,           \* each poll: idle, between its two queries, or with both answers
    eventsRead,   \* allEvents as the poll read them
    overlapped,   \* connections that have had two polls under way at once
    wire,         \* messages sent and not yet received
    faults,
    selected,     \* selectedTaskId
    current,      \* this.socket: a connection, or 0
    log           \* how often each event occurs in selectedTaskEvents

tableVars == <<clock, stamp, visible, late>>
pollVars  == <<at, eventsRead, overlapped>>
sockVars  == <<conn, target, wire>>
panelVars == <<selected, current, log>>
vars == <<tableVars, cursor, pollVars, sockVars, faults, panelVars>>

Init ==
    /\ clock = 1 /\ stamp = [e \in Events |-> 0] /\ visible = {} /\ late = {}
    /\ conn = [c \in Connections |-> "unused"] /\ target = [c \in Connections |-> NoTask]
    /\ cursor = [c \in Connections |-> 0]
    /\ at = [p \in Polls |-> "idle"] /\ eventsRead = [p \in Polls |-> {}] /\ overlapped = {}
    /\ wire = [c \in Connections |-> <<>>] /\ faults = 0
    /\ selected = NoTask /\ current = 0 /\ log = [e \in Events |-> 0]

-----------------------------------------------------------------------------
(* The writers: worker and API processes                                   *)

\* taskEvents.create() stamps the row with the time it is, and commits it any time later.
InsertEvent(e) ==
    /\ stamp[e] = 0 /\ \A f \in Events : stamp[f] = 0 => e <= f
    /\ clock' \in clock..MaxTime /\ stamp' = [stamp EXCEPT ![e] = clock']
    /\ UNCHANGED <<visible, late, cursor, pollVars, sockVars, faults, panelVars>>

CommitEvent(e) ==
    /\ stamp[e] > 0 /\ e \notin visible
    /\ visible' = visible \cup {e}
    /\ late' = IF \E f \in visible : TaskOf[f] = TaskOf[e] /\ stamp[f] >= stamp[e]
               THEN late \cup {e} ELSE late
    /\ UNCHANGED <<clock, stamp, cursor, pollVars, sockVars, faults, panelVars>>

-----------------------------------------------------------------------------
(* The API's handler of one connection                                     *)

\* The poll tests `closed` and asks for the task.
StartPoll(p) ==
    /\ conn[p[1]] \in {"open", "closing"} /\ at[p] = "idle"
    /\ at' = [at EXCEPT ![p] = "task"]
    /\ overlapped' = IF \E q \in Polls : q[1] = p[1] /\ at[q] # "idle"
                     THEN overlapped \cup {p[1]} ELSE overlapped
    /\ UNCHANGED <<tableVars, cursor, eventsRead, sockVars, faults, panelVars>>

\* listByTask() is read.
ReadEvents(p) ==
    /\ at[p] = "task"
    /\ at' = [at EXCEPT ![p] = "events"]
    /\ eventsRead' = [eventsRead EXCEPT ![p] = {e \in visible : TaskOf[e] = target[p[1]]}]
    /\ UNCHANGED <<tableVars, cursor, overlapped, sockVars, faults, panelVars>>

SinceIncluding(t, from) == t >= from     \* mutant: > became >=
SinceNext(t, from) == t > from + 1       \* mutant: a millisecond too many
Since(t, from) == t > from

NewEvents(p) == {e \in eventsRead[p] : Since(stamp[e], cursor[p[1]])}

\* mutant: the cursor is the time of the poll
MoveCursorToNow(p) == cursor' = [cursor EXCEPT ![p[1]] = clock]

\* mutant: the cursor is the first time not yet read, and the test is > still
MoveCursorPast(p) ==
    \/ eventsRead[p] = {} /\ UNCHANGED cursor
    \/ \E last \in eventsRead[p] :
          /\ \A e \in eventsRead[p] : stamp[e] <= stamp[last]
          /\ cursor' = [cursor EXCEPT ![p[1]] = stamp[last] + 1]

\* The cursor becomes the time of the last event read, even if another poll was further.
MoveCursor(p) ==
    \/ eventsRead[p] = {} /\ UNCHANGED cursor
    \/ \E last \in eventsRead[p] :
          /\ \A e \in eventsRead[p] : stamp[e] <= stamp[last]
          /\ cursor' = [cursor EXCEPT ![p[1]] = stamp[last]]

\* Everything after the second query: the message, if there is something new, then the
\* cursor.
AnswerPoll(p) ==
    /\ at[p] = "events"
    /\ IF NewEvents(p) # {}
       THEN /\ Len(wire[p[1]]) < MaxWire
            /\ wire' = [wire EXCEPT ![p[1]] = Append(@, NewEvents(p))]
       ELSE UNCHANGED wire
    /\ MoveCursor(p)
    /\ at' = [at EXCEPT ![p] = "idle"]
    /\ eventsRead' = [eventsRead EXCEPT ![p] = {}]
    /\ UNCHANGED <<tableVars, overlapped, conn, target, faults, panelVars>>

\* A query rejects: logged, and the poll is over.
FailPoll(p) ==
    /\ at[p] # "idle" /\ faults < MaxFaults /\ faults' = faults + 1
    /\ at' = [at EXCEPT ![p] = "idle"]
    /\ eventsRead' = [eventsRead EXCEPT ![p] = {}]
    /\ UNCHANGED <<tableVars, cursor, overlapped, sockVars, panelVars>>

-----------------------------------------------------------------------------
(* The socket                                                              *)

Accept(c) ==
    /\ conn[c] = "connecting" /\ conn' = [conn EXCEPT ![c] = "open"]
    /\ UNCHANGED <<tableVars, cursor, pollVars, target, wire, faults, panelVars>>

\* socket.on("close") at the API: the interval is cleared.  What polls still under way do
\* after it reaches nobody, and is left out.
ClosePolls(c) ==
    /\ conn' = [conn EXCEPT ![c] = "closed"]
    /\ cursor' = [cursor EXCEPT ![c] = 0]
    /\ at' = [p \in Polls |-> IF p[1] = c THEN "idle" ELSE at[p]]
    /\ eventsRead' = [p \in Polls |-> IF p[1] = c THEN {} ELSE eventsRead[p]]

NoticeClose(c) ==
    /\ conn[c] = "closing" /\ ClosePolls(c)
    /\ UNCHANGED <<tableVars, overlapped, target, wire, faults, panelVars>>

\* The connection breaks; nothing opens it again.
LoseConnection(c) ==
    /\ conn[c] \in {"connecting", "open", "closing"}
    /\ faults < MaxFaults /\ faults' = faults + 1
    /\ ClosePolls(c)
    /\ wire' = [wire EXCEPT ![c] = <<>>]
    /\ UNCHANGED <<tableVars, overlapped, target, panelVars>>

-----------------------------------------------------------------------------
(* The panel                                                               *)

\* selectAndStreamTask(): the old socket is closed, or aborted if it is not open yet.
SelectTask(t, c) ==
    /\ conn[c] = "unused" /\ \A d \in Connections : conn[d] = "unused" => c <= d
    /\ conn' = [d \in Connections |->
                  IF d = c THEN "connecting"
                  ELSE IF d # current THEN conn[d]
                  ELSE CASE conn[d] = "connecting" -> "closed"
                         [] conn[d] = "open"       -> "closing"
                         [] OTHER                  -> conn[d]]
    /\ target' = [target EXCEPT ![c] = t]
    /\ current' = c /\ selected' = t
    /\ log' = [e \in Events |-> 0]
    /\ UNCHANGED <<tableVars, cursor, pollVars, wire, faults>>

AnyTask(t) == TRUE                       \* mutant: no check for a stale connection
StillSelected(t) == selected = t

\* onMessage() and applyStreamUpdate()
Receive(c) ==
    /\ wire[c] # <<>>
    /\ wire' = [wire EXCEPT ![c] = Tail(@)]
    /\ log' = IF StillSelected(target[c])
              THEN [e \in Events |-> IF e \in Head(wire[c]) THEN log[e] + 1 ELSE log[e]]
              ELSE log
    /\ UNCHANGED <<tableVars, cursor, pollVars, conn, target, faults, selected, current>>

-----------------------------------------------------------------------------
PollStep(p) == ReadEvents(p) \/ AnswerPoll(p)

Next ==
    \/ \E e \in Events : InsertEvent(e) \/ CommitEvent(e)
    \/ \E p \in Polls : StartPoll(p) \/ PollStep(p) \/ FailPoll(p)
    \/ \E c \in Connections : Accept(c) \/ NoticeClose(c) \/ LoseConnection(c) \/ Receive(c)
    \/ \E t \in Tasks, c \in Connections : SelectTask(t, c)

Spec == Init /\ [][Next]_vars

\* Queries answer, the interval goes on and frames arrive; writers and users may rest.
FairSpec ==
    /\ Spec
    /\ \A p \in Polls : WF_vars(StartPoll(p)) /\ WF_vars(PollStep(p))
    /\ \A c \in Connections : WF_vars(Receive(c))

-----------------------------------------------------------------------------
(* Properties                                                              *)

\* Type correctness of the tables, the handlers, the sockets and the panel.
TypeOK ==
    /\ clock \in 1..MaxTime /\ stamp \in [Events -> 0..MaxTime]
    /\ visible \subseteq Events /\ late \subseteq visible
    /\ conn \in [Connections -> {"unused", "connecting", "open", "closing", "closed"}]
    /\ target \in [Connections -> Tasks \cup {NoTask}]
    /\ cursor \in [Connections -> 0..MaxTime]
    /\ at \in [Polls -> {"idle", "task", "events"}]
    /\ eventsRead \in [Polls -> SUBSET Events]
    /\ overlapped \subseteq Connections
    /\ wire \in [Connections -> Seq(SUBSET Events)] /\ faults \in 0..MaxFaults
    /\ selected \in Tasks \cup {NoTask} /\ current \in Connections \cup {0}
    /\ log \in [Events -> Nat]

\* "a connection for a task the user has since deselected is stale and should be ignored
\* rather than corrupting whatever is now selected" (dashboardViewModel.ts): whatever polls
\* overlap, fail or answer out of order, the panel's log is an EventLog.
L == INSTANCE EventLog WITH
        Times <- 1..MaxTime,
        time <- [e \in Events |-> IF e \in visible THEN stamp[e] ELSE 0],
        earlier <- {target[c] : c \in {d \in Connections \ {current} : conn[d] # "unused"}},
        shown <- {e \in Events : log[e] > 0}

ImplementsEventLog == L!Spec

EventsIn(messages) == UNION {messages[i] : i \in 1..Len(messages)}
UnderWay(c) == EventsIn(wire[c])

\* The cursor never passes an event that was not sent: whatever polls overlap or fail, an
\* event up to the cursor is in the log or in a message under way.  An event that is
\* committed after one of its task with the same or a later time may be passed over.
NothingSkipped ==
    current # 0 /\ conn[current] = "open" =>
        \A e \in visible \ late :
            TaskOf[e] = selected /\ stamp[e] <= cursor[current]
                => log[e] > 0 \/ e \in UnderWay(current)

\* "then only new events" (api's README): an event is shown twice only after polls of the
\* connection overlapped, or when the task was selected before and a message of the
\* earlier connection came late.
ShownOnce ==
    \A e \in Events : log[e] > 1 =>
        \/ current \in overlapped
        \/ \E c \in Connections \ {current} : target[c] = selected

\* An event that is not late is shown in the end, while its task stays selected and the
\* connection is up.
EventsArrive ==
    \A e \in Events, c \in Connections :
        e \in visible \ late /\ current = c /\ conn[c] = "open" /\ TaskOf[e] = selected
            ~> log[e] > 0 \/ current # c \/ conn[c] # "open"
=============================================================================
