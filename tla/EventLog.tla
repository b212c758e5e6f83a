------------------------------ MODULE EventLog ------------------------------
(***************************************************************************)
(* What the panel's event log promises, without polls, cursors, messages   *)
(* or connections: it holds committed events of the selected task, only    *)
(* grows while the task is selected, and has no gap: whenever an event is  *)
(* shown, so is every event of the task up to it, save those committed out *)
(* of order.  Of a task that is selected again a remnant may come first.   *)
(***************************************************************************)
EXTENDS Naturals

CONSTANTS Tasks, NoTask, Events, TaskOf, Times

VARIABLES
    time,                \* createdAt of the committed events, 0 for the others
    late,                \* committed after one of their task with this time or a later
    selected, earlier,   \* the selected task; those selected before it
    shown
vars == <<time, late, selected, earlier, shown>>

Init == /\ time = [e \in Events |-> 0] /\ late = {}
        /\ selected = NoTask /\ earlier = {} /\ shown = {}

EventsOf(t) == {e \in Events : time[e] > 0 /\ TaskOf[e] = t}

Commit(e, now) ==
    /\ time[e] = 0
    /\ time' = [time EXCEPT ![e] = now]
    /\ late' = late \cup {x \in {e} : \E f \in EventsOf(TaskOf[e]) : time[f] >= now}
    /\ UNCHANGED <<selected, earlier, shown>>

Select(t) ==
    /\ selected' = t /\ shown' = {}
    /\ earlier' = earlier \cup ({selected} \ {NoTask})
    /\ UNCHANGED <<time, late>>

NoGap(S) == \A e \in S : \A f \in EventsOf(TaskOf[e]) \ late : time[f] <= time[e] => f \in S

Show(S) ==
    /\ shown' = shown \cup S
    /\ NoGap(shown') \/ selected \in earlier
    /\ UNCHANGED <<time, late, selected, earlier>>

Next == \/ \E e \in Events, now \in Times : Commit(e, now)
        \/ \E t \in Tasks : Select(t)
        \/ \E S \in SUBSET EventsOf(selected) : Show(S)

Spec == Init /\ [][Next]_vars
=============================================================================
