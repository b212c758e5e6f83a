----------------------------- MODULE ChatProofs -----------------------------
(***************************************************************************)
(* Proofs about Chat, for any number of lines, tasks, polls and faults.    *)
(*                                                                         *)
(* Lines are typed in order, and two that are under way at one time are    *)
(* both in `overlapped`.  So whatever a line found that was never under    *)
(* way together with another is found by every later line: the handler of  *)
(* a later line read chatState after it was answered.                      *)
(***************************************************************************)
EXTENDS Chat, TLAPS

Typed(s) == line[s] # "untyped"

\* Lines are typed in order; an earlier one that is still under way overlaps.
TypedInOrder ==
    /\ \A s, q \in Lines : q < s /\ Typed(s) => Typed(q)
    /\ \A s, q \in Lines : UnderWay(q) /\ Typed(s) /\ q < s => s \in overlapped
    /\ \A s, q \in Lines : UnderWay(q) /\ UnderWay(s) /\ q # s => s \in overlapped

\* An answered line is in the chat and in what is made of it.
KeptByAll(s) ==
    Answered(s) /\ s \notin overlapped =>
        s \in messages /\ \A q \in Lines : UnderWay(q) => s \in heard[q]

\* The task of an `implement` line that found it, with nobody under way beside it.
Settled(q) == command[q] = "implement" /\ line[q] = "done" /\ q \notin overlapped

\* It is current until another `implement` line is typed, and what any line up to that one
\* takes for current.
CurrentInv(q) ==
    Settled(q) =>
        /\ (\A r \in Lines : q < r /\ Typed(r) => command[r] # "implement") => current = q
        /\ \A s \in Lines :
              UnderWay(s) /\ q < s /\ (\A r \in Lines : q < r /\ r < s => command[r] # "implement")
              => target[s] = q

\* Whatever the chat takes for a task exists.
TasksExist ==
    /\ current # NoTask => taskState[current] > 0
    /\ \A s \in Lines : target[s] # NoTask => taskState[target[s]] > 0
    /\ \A s \in Lines : line[s] = "reply" /\ command[s] = "implement" => taskState[s] > 0

ChatInv ==
    /\ ChatTypeOK /\ TypedInOrder /\ TasksExist
    /\ \A s \in Lines : KeptByAll(s) /\ CurrentInv(s)

-----------------------------------------------------------------------------
LEMMA InitChatInv == ChatInit => ChatInv
<1> SUFFICES ASSUME ChatInit PROVE ChatInv
  OBVIOUS
<1> USE ChatAssumption DEF ChatInit
<1>1. ChatTypeOK
  BY DEF ChatTypeOK, AllCommands, UnderWay
<1>2. TypedInOrder /\ TasksExist
  BY DEF TypedInOrder, TasksExist, Typed, UnderWay
<1>3. \A s \in Lines : KeptByAll(s) /\ CurrentInv(s)
  BY DEF KeptByAll, CurrentInv, Settled, Answered, Typed, UnderWay
<1>4. QED
  BY <1>1, <1>2, <1>3 DEF ChatInv

\* Tasks only gain states.
LEMMA TasksGrow ==
  ASSUME ChatTypeOK, TasksExist, [ChatNext]_chat
  PROVE  \A t \in Tasks : taskState[t] <= taskState'[t]
<1> USE ChatAssumption DEF ChatTypeOK, Tasks
<1>1. CASE \E t \in Tasks : Advance(t)
  BY <1>1 DEF Advance
<1>2. CASE \E s \in Lines : Serve(s)
  <2>1. PICK s \in Lines : Serve(s)
    BY <1>2
  <2>2. CASE Cancel(s)
    BY <2>1, <2>2 DEF Cancel
  <2>3. CASE Enqueue(s) \/ LookUp(s)
    BY <2>1, <2>3 DEF Enqueue, LookUp, apiVars
  <2>4. QED
    BY <2>1, <2>2, <2>3 DEF Serve
<1>3. CASE \/ \E s \in Lines : PollTask(s) \/ Answer(s) \/ RequestFails(s) \/ \E c \in Commands : Submit(s, c)
           \/ UNCHANGED chat
  BY <1>3 DEF PollTask, Answer, RequestFails, Submit, apiVars, chat
<1>4. QED
  BY <1>1, <1>2, <1>3 DEF ChatNext, LineStep

LEMMA SubmitTypeOK ==
  ASSUME ChatTypeOK, NEW s \in Lines, NEW c \in Commands, Submit(s, c)
  PROVE  ChatTypeOK'
<1> USE ChatAssumption DEF Submit, ChatTypeOK, UnderWay, apiVars
<1>1. /\ command' \in [Lines -> AllCommands] /\ overlapped' \subseteq Lines
      /\ line' = [line EXCEPT ![s] = IF IsLocal(c) THEN "done" ELSE "request"]
      /\ line[s] = "untyped" /\ UNCHANGED <<taskState, queued, tries, current, faults>>
  OBVIOUS
<1>2. CASE IsLocal(c)
  <2>1. messages' = messages \cup {s} /\ UNCHANGED <<heard, target>>
    BY <1>2
  <2>2. QED
    BY <1>1, <1>2, <2>1
<1>3. CASE ~IsLocal(c)
  <2>1. /\ heard' = [heard EXCEPT ![s] = messages] /\ target' = [target EXCEPT ![s] = current]
        /\ UNCHANGED messages
    BY <1>3
  <2>2. QED
    BY <1>1, <1>3, <2>1
<1>4. QED
  BY <1>2, <1>3

LEMMA AnswerTypeOK ==
  ASSUME ChatTypeOK, NEW s \in Lines, Answer(s)
  PROVE  ChatTypeOK'
<1> USE ChatAssumption DEF Answer, ChatTypeOK, UnderWay, apiVars
<1>1. /\ LinesAfter(s) \in SUBSET Lines /\ TaskAfter(s) \in Tasks \cup {NoTask}
      /\ Outcome(s) \in {"done", "gaveUp", "failed"}
  BY DEF LinesAfter, TaskAfter, Outcome, Tasks
<1>2. QED
  BY <1>1

LEMMA StepChatTypeOK ==
  ASSUME ChatTypeOK, TasksExist, [ChatNext]_chat
  PROVE  ChatTypeOK'
<1> USE ChatAssumption DEF ChatTypeOK, UnderWay, apiVars, lineVars, chatVars, Tasks
<1>1. ASSUME NEW t \in Tasks, Advance(t) PROVE ChatTypeOK'
  BY <1>1 DEF Advance
<1>2. ASSUME NEW s \in Lines, Serve(s) PROVE ChatTypeOK'
  <2>1. CASE Enqueue(s)
    BY <1>2, <2>1 DEF Serve, Enqueue
  <2>2. CASE LookUp(s)
    BY <1>2, <2>2 DEF Serve, LookUp
  <2>3. CASE Cancel(s)
    <3>1. /\ line' \in {[line EXCEPT ![s] = "reply"], [line EXCEPT ![s] = "error"]}
          /\ taskState' \in {taskState, [taskState EXCEPT ![target[s]] = FinalState]}
      BY <2>3 DEF Cancel
    <3>2. taskState' \in [Tasks -> 0..FinalState]
      <4>1. FinalState \in 0..FinalState
        OBVIOUS
      <4>2. taskState \in [Tasks -> 0..FinalState]
        BY DEF ChatTypeOK
      <4>3. QED
        BY ONLY <3>1, <4>1, <4>2
    <3>3. QED
      BY <1>2, <2>3, <3>1, <3>2 DEF Serve, Cancel
  <2>4. QED
    BY <1>2, <2>1, <2>2, <2>3 DEF Serve
<1>3. ASSUME NEW s \in Lines, PollTask(s) PROVE ChatTypeOK'
  BY <1>3 DEF PollTask, PollLeft
<1>4. ASSUME NEW s \in Lines, RequestFails(s) PROVE ChatTypeOK'
  BY <1>4 DEF RequestFails
<1>5. CASE UNCHANGED chat
  BY <1>5 DEF chat
<1>6. QED
  BY <1>1, <1>2, <1>3, <1>4, <1>5, SubmitTypeOK, AnswerTypeOK DEF ChatNext, LineStep

-----------------------------------------------------------------------------
\* A step that begins and ends no line: the lines under way stay under way and keep what
\* they read.
Quiet ==
    /\ \A s \in Lines : /\ UnderWay(s)' <=> UnderWay(s)
                        /\ Answered(s) => line'[s] = line[s]
                        /\ Answered(s)' => Answered(s)
                        /\ line[s] = "untyped" <=> line'[s] = "untyped"
    /\ UNCHANGED <<command, heard, target, overlapped, messages, current>>

LEMMA MostStepsAreQuiet ==
  ASSUME ChatTypeOK,
         \/ \E t \in Tasks : Advance(t)
         \/ \E s \in Lines : Serve(s) \/ PollTask(s) \/ RequestFails(s)
         \/ UNCHANGED chat
  PROVE  Quiet
<1> USE DEF ChatTypeOK, Quiet, UnderWay, Answered, apiVars, lineVars, chatVars
<1>1. ASSUME NEW s \in Lines, Serve(s) PROVE Quiet
  <2>1. line' \in {[line EXCEPT ![s] = x] : x \in {"poll", "reply", "error"}} /\ line[s] = "request"
    BY <1>1 DEF Serve, Enqueue, LookUp, Cancel
  <2>2. QED
    BY <1>1, <2>1 DEF Serve
<1>2. ASSUME NEW s \in Lines, PollTask(s) PROVE Quiet
  <2>1. line' \in {line, [line EXCEPT ![s] = "reply"]} /\ line[s] = "poll"
    BY <1>2 DEF PollTask
  <2>2. QED
    BY <1>2, <2>1 DEF PollTask
<1>3. ASSUME NEW s \in Lines, RequestFails(s) PROVE Quiet
  BY <1>3 DEF RequestFails
<1>4. CASE \E t \in Tasks : Advance(t)
  BY <1>4 DEF Advance
<1>5. CASE UNCHANGED chat
  BY <1>5 DEF chat
<1>6. QED
  BY <1>1, <1>2, <1>3, <1>4, <1>5

LEMMA QuietKeeps ==
  ASSUME ChatInv, Quiet
  PROVE  TypedInOrder' /\ \A s \in Lines : KeptByAll(s)' /\ CurrentInv(s)'
<1> USE DEF ChatInv
<1>1. TypedInOrder'
  BY DEF TypedInOrder, Quiet, Typed
<1>2. ASSUME NEW s \in Lines PROVE KeptByAll(s)'
  BY DEF KeptByAll, Quiet
<1>3. ASSUME NEW q \in Lines PROVE CurrentInv(q)'
  <2>1. Settled(q)' => Settled(q)
    BY DEF Settled, Quiet, Answered
  <2>2. \A s \in Lines : (Typed(s)' <=> Typed(s)) /\ (UnderWay(s)' <=> UnderWay(s))
    BY DEF Quiet, Typed
  <2>3. QED
    BY <2>1, <2>2 DEF CurrentInv, Quiet
<1>4. QED
  BY <1>1, <1>2, <1>3

LEMMA SubmitKeeps ==
  ASSUME ChatInv, NEW x \in Lines, NEW c \in Commands, Submit(x, c)
  PROVE  TypedInOrder' /\ \A s \in Lines : KeptByAll(s)' /\ CurrentInv(s)'
<1> USE ChatAssumption DEF ChatInv
<1>1. /\ line[x] = "untyped" /\ \A q \in Lines : q < x => Typed(q)
      /\ \A s \in Lines : Typed(s) => s < x
  <2>1. line[x] = "untyped" /\ \A q \in Lines : q < x => Typed(q)
    BY DEF Submit, Typed
  <2>2. \A s \in Lines : Typed(s) => s # x /\ ~(x < s)
    BY <2>1 DEF TypedInOrder, Typed
  <2>3. QED
    BY <2>1, <2>2
<1>2. /\ line' = [line EXCEPT ![x] = IF IsLocal(c) THEN "done" ELSE "request"]
      /\ command' = [command EXCEPT ![x] = c]
      /\ UNCHANGED current
  BY DEF Submit
<1>3. /\ ~IsLocal(c) => /\ heard' = [heard EXCEPT ![x] = messages]
                        /\ target' = [target EXCEPT ![x] = current] /\ UNCHANGED messages
      /\ IsLocal(c) => UNCHANGED <<heard, target>> /\ messages' = messages \cup {x}
  BY DEF Submit
<1>4. /\ (\E q \in Lines : UnderWay(q)) => overlapped' = overlapped \cup {x} \cup {q \in Lines : UnderWay(q)}
      /\ ~(\E q \in Lines : UnderWay(q)) => overlapped' = overlapped
  BY DEF Submit
<1>5. /\ Typed(x)' /\ ~UnderWay(x) /\ ~Answered(x)
      /\ UnderWay(x)' <=> ~IsLocal(c)
      /\ Answered(x)' => IsLocal(c)
      /\ \A s \in Lines \ {x} : /\ line'[s] = line[s] /\ (Typed(s)' <=> Typed(s))
                                /\ (UnderWay(s)' <=> UnderWay(s)) /\ (Answered(s)' <=> Answered(s))
                                /\ command'[s] = command[s]
  BY <1>1, <1>2 DEF ChatTypeOK, Typed, UnderWay, Answered
<1>6. TypedInOrder'
  <2>1. \A s, q \in Lines : q < s /\ Typed(s)' => Typed(q)'
    BY <1>1, <1>5 DEF TypedInOrder
  <2>2. \A s, q \in Lines : UnderWay(q)' /\ Typed(s)' /\ q < s => s \in overlapped'
    <3> SUFFICES ASSUME NEW s \in Lines, NEW q \in Lines, UnderWay(q)', Typed(s)', q < s
                 PROVE  s \in overlapped'
      OBVIOUS
    <3>1. q # x
      BY <1>1, <1>5
    <3>2. UnderWay(q)
      BY <1>5, <3>1
    <3>3. QED
      BY <1>4, <1>5, <3>2 DEF TypedInOrder
  <2>3. \A s, q \in Lines : UnderWay(q)' /\ UnderWay(s)' /\ q # s => s \in overlapped'
    BY <1>4, <1>5 DEF TypedInOrder
  <2>4. QED
    BY <2>1, <2>2, <2>3 DEF TypedInOrder
<1>7. ASSUME NEW s \in Lines PROVE KeptByAll(s)'
  <2>1. CASE s = x
    <3> SUFFICES ASSUME Answered(x)', x \notin overlapped'
                 PROVE  x \in messages' /\ \A q \in Lines : UnderWay(q)' => x \in heard'[q]
      BY <2>1 DEF KeptByAll
    <3>1. IsLocal(c) /\ x \in messages'
      BY <1>3, <1>5
    <3>2. \A q \in Lines : ~UnderWay(q)'
      BY <1>4, <1>5, <3>1
    <3>3. QED
      BY <3>1, <3>2
  <2>2. CASE s # x
    <3> SUFFICES ASSUME Answered(s)', s \notin overlapped'
                 PROVE  s \in messages' /\ \A q \in Lines : UnderWay(q)' => s \in heard'[q]
      BY DEF KeptByAll
    <3>1. Answered(s) /\ s \notin overlapped
      BY <1>4, <1>5, <2>2
    <3>2. s \in messages /\ \A q \in Lines : UnderWay(q) => s \in heard[q]
      BY <3>1 DEF KeptByAll
    <3>3. s \in messages'
      BY <1>3, <3>2
    <3>4. ASSUME NEW q \in Lines, UnderWay(q)' PROVE s \in heard'[q]
      BY <1>3, <1>5, <3>2, <3>4 DEF ChatTypeOK
    <3>5. QED
      BY <3>3, <3>4
  <2>3. QED
    BY <2>1, <2>2
<1>8. ASSUME NEW q \in Lines PROVE CurrentInv(q)'
  <2> SUFFICES ASSUME Settled(q)' PROVE CurrentInv(q)'
    BY DEF CurrentInv
  <2>1. q # x
    BY <1>2, <1>5 DEF Settled, IsLocal, Answered, ChatTypeOK, AllCommands
  <2>2. Settled(q) /\ Typed(q) /\ q < x
    BY <1>1, <1>4, <1>5, <2>1 DEF Settled, Typed
  <2>3. ASSUME \A r \in Lines : q < r /\ Typed(r)' => command'[r] # "implement" PROVE current' = q
    <3>1. \A r \in Lines : q < r /\ Typed(r) => command[r] # "implement"
      BY <1>1, <1>5, <2>3
    <3>2. QED
      BY <1>2, <2>2, <3>1 DEF CurrentInv
  <2>4. ASSUME NEW s \in Lines, UnderWay(s)', q < s,
               \A r \in Lines : q < r /\ r < s => command'[r] # "implement"
        PROVE  target'[s] = q
    <3>1. CASE s = x
      <4>1. \A r \in Lines : q < r /\ Typed(r) => command[r] # "implement"
        BY <1>1, <1>5, <2>4, <3>1
      <4>2. current = q
        BY <2>2, <4>1 DEF CurrentInv
      <4>3. QED
        BY <1>3, <1>5, <2>4, <3>1, <4>2 DEF ChatTypeOK
    <3>2. CASE s # x
      <4>1. UnderWay(s) /\ s < x
        <5>1. UnderWay(s)
          BY <1>5, <2>4, <3>2
        <5>2. Typed(s)
          BY <5>1 DEF Typed, UnderWay
        <5>3. QED
          BY <1>1, <5>1, <5>2
      <4>2. \A r \in Lines : q < r /\ r < s => command[r] # "implement"
        <5>1. \A r \in Lines : r < s => r # x
          BY <4>1
        <5>2. QED
          BY <1>5, <2>4, <5>1
      <4>3. target[s] = q
        BY <2>2, <2>4, <4>1, <4>2 DEF CurrentInv
      <4>4. QED
        BY <1>3, <3>2, <4>3 DEF ChatTypeOK
    <3>3. QED
      BY <3>1, <3>2
  <2>5. QED
    BY <2>3, <2>4 DEF CurrentInv
<1>9. QED
  BY <1>6, <1>7, <1>8

LEMMA AnswerKeeps ==
  ASSUME ChatInv, NEW x \in Lines, Answer(x)
  PROVE  TypedInOrder' /\ \A s \in Lines : KeptByAll(s)' /\ CurrentInv(s)'
<1> USE ChatAssumption DEF ChatInv
<1>1. /\ UnderWay(x) /\ Typed(x) /\ ~Answered(x)
      /\ Outcome(x) \in {"done", "gaveUp", "failed"}
      /\ Outcome(x) = "done" => line[x] = "reply"
  BY DEF Answer, Ready, Outcome, UnderWay, Typed, Answered
<1>2. /\ line' = [line EXCEPT ![x] = Outcome(x)]
      /\ messages' = heard[x] \cup {x} /\ current' = TaskAfter(x)
      /\ UNCHANGED <<command, overlapped>>
      /\ \A s \in Lines \ {x} : heard'[s] = heard[s] /\ target'[s] = target[s]
  BY DEF Answer, LinesAfter, ChatTypeOK
<1>3. /\ Typed(x)' /\ ~UnderWay(x)'
      /\ \A s \in Lines \ {x} : /\ line'[s] = line[s] /\ (Typed(s)' <=> Typed(s))
                                /\ (UnderWay(s)' <=> UnderWay(s)) /\ (Answered(s)' <=> Answered(s))
  BY <1>1, <1>2 DEF ChatTypeOK, Typed, UnderWay, Answered
<1>4. TypedInOrder'
  <2>1. \A s \in Lines : (Typed(s)' <=> Typed(s)) /\ (UnderWay(s)' => UnderWay(s))
    BY <1>1, <1>3
  <2>2. QED
    BY <1>2, <2>1 DEF TypedInOrder
<1>5. ASSUME NEW s \in Lines PROVE KeptByAll(s)'
  <2> SUFFICES ASSUME Answered(s)', s \notin overlapped
               PROVE  s \in messages' /\ \A q \in Lines : UnderWay(q)' => s \in heard'[q]
    BY <1>2 DEF KeptByAll
  <2>1. CASE s = x
    <3>1. \A q \in Lines : ~UnderWay(q)'
      BY <1>1, <1>3, <2>1 DEF TypedInOrder
    <3>2. QED
      BY <1>2, <2>1, <3>1
  <2>2. CASE s # x
    <3>1. \A q \in Lines : UnderWay(q) => s \in heard[q]
      BY <1>3, <2>2 DEF KeptByAll
    <3>2. \A q \in Lines : UnderWay(q)' => s \in heard'[q]
      BY <1>2, <1>3, <3>1
    <3>3. QED
      BY <1>1, <1>2, <3>1, <3>2
  <2>3. QED
    BY <2>1, <2>2
<1>6. ASSUME NEW q \in Lines PROVE CurrentInv(q)'
  <2> SUFFICES ASSUME Settled(q)' PROVE CurrentInv(q)'
    BY DEF CurrentInv
  <2>1. command[q] = "implement" /\ q \notin overlapped
    BY <1>2 DEF Settled
  <2>2. CASE q = x
    <3>1. line[x] = "reply"
      BY <1>1, <1>2, <2>2 DEF Settled, ChatTypeOK
    <3>2. current' = q
      BY <1>2, <2>1, <2>2, <3>1 DEF TaskAfter
    <3>3. \A s \in Lines : ~UnderWay(s)'
      BY <1>1, <1>3, <2>1, <2>2 DEF TypedInOrder
    <3>4. QED
      BY <3>2, <3>3 DEF CurrentInv
  <2>3. CASE q # x
    <3>1. Settled(q) /\ Typed(q)
      BY <1>2, <1>3, <2>3 DEF Settled, Typed
    <3>2. q < x
      <4>1. ~(x < q)
        BY <1>1, <2>1, <3>1 DEF TypedInOrder
      <4>2. QED
        BY <2>3, <4>1
    <3>3. ASSUME \A r \in Lines : q < r /\ Typed(r)' => command'[r] # "implement"
          PROVE  current' = q
      <4>1. command[x] # "implement"
        BY <1>2, <1>3, <3>2, <3>3
      <4>2. \A r \in Lines : q < r /\ r < x => command[r] # "implement"
        BY <1>1, <1>2, <1>3, <3>3 DEF TypedInOrder
      <4>3. target[x] = q
        BY <1>1, <3>1, <3>2, <4>2 DEF CurrentInv
      <4>4. QED
        BY <1>2, <4>1, <4>3 DEF TaskAfter
    <3>4. ASSUME NEW s \in Lines, UnderWay(s)', q < s,
                 \A r \in Lines : q < r /\ r < s => command'[r] # "implement"
          PROVE  target'[s] = q
      BY <1>2, <1>3, <3>1, <3>4 DEF CurrentInv
    <3>5. QED
      BY <3>3, <3>4 DEF CurrentInv
  <2>4. QED
    BY <2>2, <2>3
<1>7. QED
  BY <1>4, <1>5, <1>6

LEMMA TasksStillExist ==
  ASSUME ChatInv, [ChatNext]_chat
  PROVE  TasksExist'
<1> USE ChatAssumption DEF ChatInv
<1>1. \A t \in Tasks : taskState[t] \in Nat /\ taskState'[t] \in Nat
                       /\ (taskState[t] > 0 => taskState'[t] > 0)
  <2>1. \A t \in Tasks : taskState[t] <= taskState'[t]
    BY TasksGrow
  <2>2. ChatTypeOK'
    BY StepChatTypeOK
  <2>3. QED
    BY <2>1, <2>2 DEF ChatTypeOK
<1>2. /\ current \in Tasks \cup {NoTask}
      /\ \A s \in Lines : s \in Tasks /\ target[s] \in Tasks \cup {NoTask}
  BY DEF ChatTypeOK, Tasks
<1>3. CASE UNCHANGED <<command, target, current>>
  <2>1. ASSUME NEW s \in Lines, line'[s] = "reply", command'[s] = "implement"
        PROVE  taskState'[s] > 0
    <3>1. CASE line[s] = "reply"
      BY <1>1, <1>2, <1>3, <2>1, <3>1 DEF TasksExist
    <3>2. CASE line[s] # "reply"
      <4>1. PollTask(s) /\ Found(s)
        BY <1>3, <2>1, <3>2
           DEF ChatNext, LineStep, Serve, Enqueue, LookUp, Cancel, PollTask, Answer, Outcome,
               RequestFails, Submit, Advance, lineVars, chat, ChatTypeOK
      <4>2. QED
        BY <1>1, <1>2, <4>1 DEF Found
    <3>3. QED
      BY <3>1, <3>2
  <2>2. QED
    BY <1>1, <1>2, <1>3, <2>1 DEF TasksExist
<1>4. ASSUME NEW x \in Lines, NEW c \in Commands, Submit(x, c) PROVE TasksExist'
  <2>1. /\ UNCHANGED <<taskState, current>>
        /\ \A s \in Lines : target'[s] \in {target[s], current}
        /\ line' = [line EXCEPT ![x] = IF IsLocal(c) THEN "done" ELSE "request"]
        /\ command' = [command EXCEPT ![x] = c]
    BY <1>4 DEF Submit, ChatTypeOK, apiVars
  <2>2. \A s \in Lines : line'[s] = "reply" => line[s] = "reply" /\ command'[s] = command[s]
    BY <2>1 DEF ChatTypeOK
  <2>3. QED
    BY <2>1, <2>2 DEF TasksExist
<1>5. ASSUME NEW x \in Lines, Answer(x) PROVE TasksExist'
  <2>1. /\ UNCHANGED <<taskState, command>>
        /\ current' = TaskAfter(x)
        /\ \A s \in Lines : target'[s] \in {target[s], NoTask}
        /\ \A s \in Lines : line'[s] = "reply" => line[s] = "reply"
    BY <1>5 DEF Answer, Outcome, ChatTypeOK, apiVars
  <2>2. current' # NoTask => taskState'[current'] > 0
    BY <2>1 DEF TaskAfter, TasksExist
  <2>3. QED
    BY <2>1, <2>2 DEF TasksExist
<1>6. QED
  BY <1>3, <1>4, <1>5
     DEF ChatNext, LineStep, Serve, PollTask, RequestFails, Advance, lineVars, chatVars, chat

LEMMA StepChatInv == ChatInv /\ [ChatNext]_chat => ChatInv'
<1> SUFFICES ASSUME ChatInv, [ChatNext]_chat PROVE ChatInv'
  OBVIOUS
<1>1. ChatTypeOK' /\ TasksExist'
  BY StepChatTypeOK, TasksStillExist DEF ChatInv
<1>2. TypedInOrder' /\ \A s \in Lines : KeptByAll(s)' /\ CurrentInv(s)'
  <2>1. CASE \E s \in Lines : Answer(s)
    BY <2>1, AnswerKeeps
  <2>2. CASE \E s \in Lines, c \in Commands : Submit(s, c)
    BY <2>2, SubmitKeeps
  <2>3. CASE \/ \E t \in Tasks : Advance(t)
             \/ \E s \in Lines : Serve(s) \/ PollTask(s) \/ RequestFails(s)
             \/ UNCHANGED chat
    BY <2>3, MostStepsAreQuiet, QuietKeeps DEF ChatInv
  <2>4. QED
    BY <2>1, <2>2, <2>3 DEF ChatNext, LineStep
<1>3. QED
  BY <1>1, <1>2 DEF ChatInv

LEMMA ChatInvariance == ChatSpec => []ChatInv
BY InitChatInv, StepChatInv, PTL DEF ChatSpec

-----------------------------------------------------------------------------
\* A line that was answered stays in the chat unless it was under way together with another,
\* for any number of lines and whatever fails.
THEOREM AnsweredStays == ChatSpec => []AnsweredLineStays
<1>1. ChatInv => AnsweredLineStays
  BY DEF ChatInv, KeptByAll, AnsweredLineStays
<1>2. QED
  BY ChatInvariance, <1>1, PTL

\* `cancel` reaches the task of the last `implement` before it that found its task and was
\* under way together with no other line.
THEOREM CancelIsAimed == ChatSpec => []CancelReachesLastTask
<1>1. ChatInv => CancelReachesLastTask
  BY DEF ChatInv, CurrentInv, Settled, CancelReachesLastTask
<1>2. QED
  BY ChatInvariance, <1>1, PTL

\* No line asks about or cancels a task that does not exist.
THEOREM TargetsExist == ChatSpec => []TargetExists
<1>1. ChatInv => TargetExists
  BY DEF ChatInv, TasksExist, TargetExists
<1>2. QED
  BY ChatInvariance, <1>1, PTL
=============================================================================
