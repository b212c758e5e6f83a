------------------------------- MODULE Intake -------------------------------
(***************************************************************************)
(* What the way from an event to its task promises, without copies of      *)
(* deliveries, retries or crashes: a trigger that asks for work passes     *)
(* each stage once, a task is made of it while it is queued and at no      *)
(* other time, and it leaves the queue only with its task.  On the way it  *)
(* may be lost before it is queued, or given up after it was.              *)
(***************************************************************************)
EXTENDS Naturals

CONSTANTS
    Triggers,          \* events and requests
    Wanted,            \* those that ask for work
    Direct             \* those that nobody needs to record first

VARIABLES stage, made  \* per trigger: where it is, how many tasks were made of it
vars == <<stage, made>>

Init == /\ stage = [t \in Triggers |-> "new"]
        /\ made = [t \in Triggers |-> 0]

Move(t, from, to) == stage[t] = from /\ stage' = [stage EXCEPT ![t] = to]

Accept(t)   == t \in Wanted \ Direct /\ Move(t, "new", "accepted") /\ UNCHANGED made
Queue(t)    == Move(t, "accepted", "queued") /\ UNCHANGED made
Ask(t)      == t \in Wanted \cap Direct /\ Move(t, "new", "queued") /\ UNCHANGED made
MakeTask(t) == Move(t, "queued", "working") /\ made[t] = 0 /\ made' = [made EXCEPT ![t] = 1]
Finish(t)   == Move(t, "working", "done") /\ UNCHANGED made

\* A process dies with whatever it holds, so these take any number at once.
MoveAny(from, to) ==
    /\ \E S \in SUBSET {t \in Triggers : stage[t] = from} :
            stage' = [t \in Triggers |-> IF t \in S THEN to ELSE stage[t]]
    /\ UNCHANGED made

Next == \/ \E t \in Triggers : Accept(t) \/ Queue(t) \/ Ask(t) \/ MakeTask(t) \/ Finish(t)
        \/ MoveAny("accepted", "lost") \/ MoveAny("queued", "failed")

Spec == Init /\ [][Next]_vars
=============================================================================
