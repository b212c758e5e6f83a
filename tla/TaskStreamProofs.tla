-------------------------- MODULE TaskStreamProofs --------------------------
(***************************************************************************)
(* Proofs about TaskStream, for any tasks, events, connections, polls and  *)
(* bounds.                                                                 *)
(***************************************************************************)
EXTENDS TaskStream, TLAPS

LEMMA PollConnection == \A p \in Polls : p[1] \in Connections
BY StreamAssumption

\* Sending a message adds its events to those under way, receiving the first takes no
\* event of another message away.
LEMMA Sending ==
    ASSUME NEW s \in Seq(SUBSET Events), NEW m \in SUBSET Events
    PROVE  /\ Append(s, m) \in Seq(SUBSET Events)
           /\ EventsIn(Append(s, m)) = EventsIn(s) \cup m
<1>1. Append(s, m) \in Seq(SUBSET Events)
    OBVIOUS
<1>2. /\ Len(s) \in Nat /\ Len(Append(s, m)) = Len(s) + 1
      /\ \A i \in 1..Len(s) : Append(s, m)[i] = s[i]
      /\ Append(s, m)[Len(s) + 1] = m
    OBVIOUS
<1>3. ASSUME NEW e, e \in EventsIn(Append(s, m)) PROVE e \in EventsIn(s) \cup m
    <2>1. PICK i \in 1..Len(s) + 1 : e \in Append(s, m)[i]
        BY <1>2, <1>3 DEF EventsIn
    <2>2. CASE i = Len(s) + 1
        BY <1>2, <2>1, <2>2
    <2>3. CASE i # Len(s) + 1
        <3>1. i \in 1..Len(s) /\ e \in s[i]
            BY <1>2, <2>1, <2>3
        <3> QED
            BY <3>1 DEF EventsIn
    <2> QED
        BY <2>2, <2>3
<1>4. ASSUME NEW e, e \in EventsIn(s) \cup m PROVE e \in EventsIn(Append(s, m))
    <2>1. PICK i \in 1..Len(s) + 1 : e \in Append(s, m)[i]
        <3>1. CASE e \in m
            <4>1. Len(s) + 1 \in 1..Len(s) + 1
                BY <1>2
            <4> QED
                BY <1>2, <3>1, <4>1
        <3>2. CASE e \in EventsIn(s)
            <4>1. PICK i \in 1..Len(s) : e \in s[i]
                BY <3>2 DEF EventsIn
            <4>2. i \in 1..Len(s) + 1
                BY <1>2
            <4> QED
                BY <1>2, <4>1, <4>2
        <3> QED
            BY <1>4, <3>1, <3>2
    <2> QED
        BY <1>2, <2>1 DEF EventsIn
<1> QED
    BY <1>1, <1>3, <1>4

LEMMA Receiving ==
    ASSUME NEW s \in Seq(SUBSET Events), s # <<>>
    PROVE  /\ Head(s) \in SUBSET Events /\ Tail(s) \in Seq(SUBSET Events)
           /\ EventsIn(s) = Head(s) \cup EventsIn(Tail(s))
<1>1. Len(s) \in Nat \ {0} /\ Head(s) = s[1] /\ \A i \in 1..Len(s) : s[i] \in SUBSET Events
    OBVIOUS
<1>2. /\ Len(Tail(s)) = Len(s) - 1
      /\ \A i \in 1..Len(s) - 1 : Tail(s)[i] = s[i + 1]
      /\ Tail(s) \in Seq(SUBSET Events)
    OBVIOUS
<1>3. ASSUME NEW e, e \in EventsIn(s) PROVE e \in Head(s) \cup EventsIn(Tail(s))
    <2>1. PICK i \in 1..Len(s) : e \in s[i]
        BY <1>3 DEF EventsIn
    <2>2. CASE i = 1
        BY <1>1, <2>1, <2>2
    <2>3. CASE i # 1
        <3>1. i - 1 \in 1..Len(Tail(s)) /\ e \in Tail(s)[i - 1]
            BY <1>1, <1>2, <2>1, <2>3
        <3> QED
            BY <3>1 DEF EventsIn
    <2> QED
        BY <2>2, <2>3
<1>4. ASSUME NEW e, e \in Head(s) \cup EventsIn(Tail(s)) PROVE e \in EventsIn(s)
    <2>1. CASE e \in Head(s)
        BY <1>1, <2>1 DEF EventsIn
    <2>2. CASE e \in EventsIn(Tail(s))
        <3>1. PICK i \in 1..Len(Tail(s)) : e \in Tail(s)[i]
            BY <2>2 DEF EventsIn
        <3>2. i + 1 \in 1..Len(s) /\ e \in s[i + 1]
            BY <1>1, <1>2, <3>1
        <3> QED
            BY <3>2 DEF EventsIn
    <2> QED
        BY <1>4, <2>1, <2>2
<1> QED
    BY <1>1, <1>2, <1>3, <1>4

LEMMA NothingSent == EventsIn(<<>>) = {}
BY DEF EventsIn

-----------------------------------------------------------------------------
(* Types                                                                   *)

\* The handlers, the sockets and the panel keep to their types, whatever is interleaved.
THEOREM TypeCorrect == Spec => []TypeOK
<1> USE StreamAssumption, PollConnection
<1>1. Init => TypeOK
    BY DEF Init, TypeOK
<1>2. TypeOK /\ [Next]_vars => TypeOK'
    <2> SUFFICES ASSUME TypeOK, [Next]_vars PROVE TypeOK'
        OBVIOUS
    <2> USE DEF TypeOK, tableVars, pollVars, sockVars, panelVars
    <2>1. ASSUME NEW e \in Events, InsertEvent(e) PROVE TypeOK'
        <3>1. clock' \in 1..MaxTime
            BY <2>1 DEF InsertEvent
        <3>2. stamp' \in [Events -> 0..MaxTime]
            BY <2>1, <3>1 DEF InsertEvent
        <3> QED
            BY <2>1, <3>1, <3>2 DEF InsertEvent
    <2>2. ASSUME NEW e \in Events, CommitEvent(e) PROVE TypeOK'
        BY <2>2 DEF CommitEvent
    <2>3. ASSUME NEW p \in Polls, StartPoll(p) PROVE TypeOK'
        BY <2>3 DEF StartPoll
    <2>4. ASSUME NEW p \in Polls, ReadEvents(p) PROVE TypeOK'
        BY <2>4 DEF ReadEvents
    <2>5. ASSUME NEW p \in Polls, AnswerPoll(p) PROVE TypeOK'
        <3>1. NewEvents(p) \in SUBSET Events
            BY DEF NewEvents
        <3>2. wire' \in [Connections -> Seq(SUBSET Events)]
            <4>1. Append(wire[p[1]], NewEvents(p)) \in Seq(SUBSET Events)
                BY <3>1, Sending
            <4>2. wire' = wire \/ wire' = [wire EXCEPT ![p[1]] = Append(wire[p[1]], NewEvents(p))]
                BY <2>5 DEF AnswerPoll
            <4>3. wire \in [Connections -> Seq(SUBSET Events)]
                OBVIOUS
            <4> HIDE DEF TypeOK
            <4> QED
                BY <4>1, <4>2, <4>3
        <3>3. cursor' \in [Connections -> 0..MaxTime]
            BY <2>5 DEF AnswerPoll, MoveCursor
        <3> QED
            BY <2>5, <3>2, <3>3 DEF AnswerPoll
    <2>6. ASSUME NEW p \in Polls, FailPoll(p) PROVE TypeOK'
        <3>1. at' \in [Polls -> {"idle", "task", "events"}] /\ faults' \in 0..MaxFaults
            BY <2>6 DEF FailPoll
        <3>2. eventsRead' \in [Polls -> SUBSET Events]
            BY <2>6 DEF FailPoll
        <3> QED
            BY <2>6, <3>1, <3>2 DEF FailPoll
    <2>7. ASSUME NEW c \in Connections, Accept(c) PROVE TypeOK'
        BY <2>7 DEF Accept
    <2>8. ASSUME NEW c \in Connections, NoticeClose(c) PROVE TypeOK'
        <3>1. conn' \in [Connections -> {"unused", "connecting", "open", "closing", "closed"}]
              /\ cursor' \in [Connections -> 0..MaxTime]
            BY <2>8 DEF NoticeClose, ClosePolls
        <3>2. at' \in [Polls -> {"idle", "task", "events"}] /\ eventsRead' \in [Polls -> SUBSET Events]
            BY <2>8 DEF NoticeClose, ClosePolls
        <3> QED
            BY <2>8, <3>1, <3>2 DEF NoticeClose
    <2>9. ASSUME NEW c \in Connections, LoseConnection(c) PROVE TypeOK'
        <3>1. wire' \in [Connections -> Seq(SUBSET Events)]
            <4>1. <<>> \in Seq(SUBSET Events)
                OBVIOUS
            <4> QED
                BY <2>9, <4>1 DEF LoseConnection
        <3>2. conn' \in [Connections -> {"unused", "connecting", "open", "closing", "closed"}]
              /\ cursor' \in [Connections -> 0..MaxTime]
            BY <2>9 DEF LoseConnection, ClosePolls
        <3>3. at' \in [Polls -> {"idle", "task", "events"}] /\ eventsRead' \in [Polls -> SUBSET Events]
            BY <2>9 DEF LoseConnection, ClosePolls
        <3>4. faults' \in 0..MaxFaults
            BY <2>9 DEF LoseConnection
        <3> QED
            BY <2>9, <3>1, <3>2, <3>3, <3>4 DEF LoseConnection
    <2>10. ASSUME NEW c \in Connections, Receive(c) PROVE TypeOK'
        <3>1. wire' \in [Connections -> Seq(SUBSET Events)]
            BY <2>10, Receiving DEF Receive
        <3>2. log' \in [Events -> Nat]
            BY <2>10 DEF Receive
        <3> QED
            BY <2>10, <3>1, <3>2 DEF Receive
    <2>11. ASSUME NEW t \in Tasks, NEW c \in Connections, SelectTask(t, c) PROVE TypeOK'
        <3>1. conn' \in [Connections -> {"unused", "connecting", "open", "closing", "closed"}]
            BY <2>11 DEF SelectTask
        <3> QED
            BY <2>11, <3>1 DEF SelectTask
    <2>12. CASE UNCHANGED vars
        BY <2>12 DEF vars
    <2> QED
        BY <2>1, <2>2, <2>3, <2>4, <2>5, <2>6, <2>7, <2>8, <2>9, <2>10, <2>11, <2>12
        DEF Next, PollStep
<1> QED
    BY <1>1, <1>2, PTL DEF Spec

-----------------------------------------------------------------------------
(* Which task                                                              *)

\* What was read, sent or shown is committed, and of the task it is read, sent or shown for.
Known ==
    /\ \A e \in visible : stamp[e] > 0
    /\ \A p \in Polls : \A e \in eventsRead[p] : e \in visible /\ TaskOf[e] = target[p[1]]
    /\ \A c \in Connections : \A e \in UnderWay(c) : e \in visible /\ TaskOf[e] = target[c]
    /\ \A c \in Connections :
          cursor[c] > 0 => \E f \in visible : TaskOf[f] = target[c] /\ stamp[f] = cursor[c]

\* A connection that is not up has no polls, and one that never was has no messages.
Quiet ==
    /\ \A p \in Polls : at[p] # "events" => eventsRead[p] = {}
    /\ \A p \in Polls : conn[p[1]] \notin {"open", "closing"} => at[p] = "idle"
    /\ \A c \in Connections : conn[c] \notin {"open", "closing"} => cursor[c] = 0
    /\ \A c \in Connections : conn[c] \in {"unused", "connecting"} => wire[c] = <<>>

\* The panel's connection is for the selected task, and so is all that is shown.
Shown ==
    /\ current # 0 => target[current] = selected /\ conn[current] # "unused"
    /\ current = 0 => \A c \in Connections : conn[c] = "unused"
    /\ \A e \in Events : log[e] > 0 => e \in visible /\ current # 0 /\ TaskOf[e] = selected

LEMMA WireSame == UNCHANGED wire => \A c \in Connections : UnderWay(c)' = UnderWay(c)
BY DEF UnderWay, EventsIn

LEMMA AnswerWire ==
    ASSUME TypeOK, NEW p \in Polls, AnswerPoll(p)
    PROVE  /\ NewEvents(p) \subseteq eventsRead[p]
           /\ UnderWay(p[1])' = UnderWay(p[1]) \cup NewEvents(p)
           /\ \A c \in Connections \ {p[1]} : UnderWay(c)' = UnderWay(c)
<1> USE PollConnection DEF TypeOK
<1>1. NewEvents(p) \subseteq eventsRead[p] /\ NewEvents(p) \in SUBSET Events
    BY DEF NewEvents
<1>2. CASE NewEvents(p) = {}
    <2>1. wire' = wire
        BY <1>2 DEF AnswerPoll
    <2> QED
        BY <1>1, <1>2, <2>1, WireSame
<1>3. CASE NewEvents(p) # {}
    <2>1. wire' = [wire EXCEPT ![p[1]] = Append(@, NewEvents(p))]
        BY <1>3 DEF AnswerPoll
    <2>2. wire'[p[1]] = Append(wire[p[1]], NewEvents(p))
          /\ \A c \in Connections \ {p[1]} : wire'[c] = wire[c]
        BY <2>1
    <2>3. EventsIn(Append(wire[p[1]], NewEvents(p))) = EventsIn(wire[p[1]]) \cup NewEvents(p)
        BY <1>1, Sending
    <2> HIDE DEF TypeOK
    <2>4. \A c \in Connections : UnderWay(c)' = EventsIn(wire'[c]) /\ UnderWay(c) = EventsIn(wire[c])
        BY DEF UnderWay, EventsIn
    <2> QED
        BY <1>1, <2>2, <2>3, <2>4
<1> QED
    BY <1>2, <1>3

LEMMA ReceiveWire ==
    ASSUME TypeOK, NEW c \in Connections, Receive(c)
    PROVE  /\ Head(wire[c]) \subseteq Events
           /\ UnderWay(c) = Head(wire[c]) \cup UnderWay(c)'
           /\ \A d \in Connections \ {c} : UnderWay(d)' = UnderWay(d)
<1>1. wire[c] \in Seq(SUBSET Events) /\ wire[c] # <<>>
    BY DEF TypeOK, Receive
<1>2. wire'[c] = Tail(wire[c]) /\ \A d \in Connections \ {c} : wire'[d] = wire[d]
    BY DEF TypeOK, Receive
<1>3. Head(wire[c]) \in SUBSET Events
      /\ EventsIn(wire[c]) = Head(wire[c]) \cup EventsIn(Tail(wire[c]))
    BY <1>1, Receiving
<1> QED
    BY <1>2, <1>3 DEF UnderWay, EventsIn

IInv == Known /\ Quiet /\ Shown

LEMMA InitIInv == Init => IInv
BY NothingSent, PollConnection DEF Init, IInv, Known, Quiet, Shown, UnderWay

LEMMA StepIInv == TypeOK /\ IInv /\ [Next]_vars => IInv'
<1> SUFFICES ASSUME TypeOK, IInv, [Next]_vars PROVE IInv'
    OBVIOUS
<1> USE StreamAssumption, PollConnection
    DEF IInv, TypeOK, tableVars, pollVars, sockVars, panelVars
<1>1. ASSUME NEW e \in Events, InsertEvent(e) PROVE IInv'
    <2>1. \A f \in visible : stamp'[f] = stamp[f]
        BY <1>1 DEF InsertEvent, Known
    <2>2. Known'
        BY <1>1, <2>1, WireSame DEF InsertEvent, Known
    <2> QED
        BY <1>1, <2>2 DEF InsertEvent, Quiet, Shown
<1>2. ASSUME NEW e \in Events, CommitEvent(e) PROVE IInv'
    <2>1. Known'
        BY <1>2, WireSame DEF CommitEvent, Known
    <2> QED
        BY <1>2, <2>1 DEF CommitEvent, Quiet, Shown
<1>3. ASSUME NEW p \in Polls, StartPoll(p) PROVE IInv'
    <2>1. Known'
        BY <1>3, WireSame DEF StartPoll, Known
    <2> QED
        BY <1>3, <2>1 DEF StartPoll, Quiet, Shown
<1>4. ASSUME NEW p \in Polls, ReadEvents(p) PROVE IInv'
    <2>1. Known'
        BY <1>4, WireSame DEF ReadEvents, Known
    <2> QED
        BY <1>4, <2>1 DEF ReadEvents, Quiet, Shown
<1>5. ASSUME NEW p \in Polls, AnswerPoll(p) PROVE IInv'
    <2>1. /\ conn[p[1]] \in {"open", "closing"} /\ at[p] = "events"
          /\ \A e \in eventsRead[p] : e \in visible /\ TaskOf[e] = target[p[1]]
        BY <1>5 DEF AnswerPoll, Quiet, Known
    <2>2. \A c \in Connections : \A e \in UnderWay(c)' : e \in visible /\ TaskOf[e] = target[c]
        <3>1. /\ NewEvents(p) \subseteq eventsRead[p]
              /\ UnderWay(p[1])' = UnderWay(p[1]) \cup NewEvents(p)
              /\ \A c \in Connections \ {p[1]} : UnderWay(c)' = UnderWay(c)
            BY <1>5, AnswerWire
        <3>2. \A c \in Connections : \A e \in UnderWay(c) : e \in visible /\ TaskOf[e] = target[c]
            BY DEF Known
        <3>3. ASSUME NEW c \in Connections, NEW e, e \in UnderWay(c)'
              PROVE  e \in UnderWay(c) \/ (c = p[1] /\ e \in eventsRead[p])
            BY <3>1, <3>3
        <3> QED
            BY <2>1, <3>2, <3>3
    <2>3. \A c \in Connections :
             cursor'[c] > 0 => \E f \in visible : TaskOf[f] = target[c] /\ stamp[f] = cursor'[c]
        BY <1>5, <2>1 DEF AnswerPoll, MoveCursor, Known
    <2>4. Known'
        BY <1>5, <2>2, <2>3 DEF AnswerPoll, Known
    <2>5. Quiet'
        <3>1. \A c \in Connections \ {p[1]} : wire'[c] = wire[c] /\ cursor'[c] = cursor[c]
            BY <1>5 DEF AnswerPoll, MoveCursor
        <3> QED
            BY <1>5, <2>1, <3>1 DEF AnswerPoll, Quiet
    <2> QED
        BY <1>5, <2>4, <2>5 DEF AnswerPoll, Shown
<1>6. ASSUME NEW p \in Polls, FailPoll(p) PROVE IInv'
    <2>1. Known'
        BY <1>6, WireSame DEF FailPoll, Known
    <2> QED
        BY <1>6, <2>1 DEF FailPoll, Quiet, Shown
<1>7. ASSUME NEW c \in Connections, Accept(c) PROVE IInv'
    <2>1. Known'
        BY <1>7, WireSame DEF Accept, Known
    <2> QED
        BY <1>7, <2>1 DEF Accept, Quiet, Shown
<1>8. ASSUME NEW c \in Connections, NoticeClose(c) PROVE IInv'
    <2>1. \A d \in Connections : UnderWay(d)' = UnderWay(d)
        BY <1>8, WireSame DEF NoticeClose
    <2>2. cursor'[c] = 0 /\ \A d \in Connections \ {c} : cursor'[d] = cursor[d]
        BY <1>8 DEF NoticeClose, ClosePolls
    <2>3. \A p \in Polls : eventsRead'[p] \subseteq eventsRead[p]
        BY <1>8 DEF NoticeClose, ClosePolls
    <2>4. UNCHANGED <<stamp, visible, target>>
        BY <1>8 DEF NoticeClose
    <2>5. Known'
        <3>1. \A d \in Connections :
                 cursor'[d] > 0 => \E f \in visible : TaskOf[f] = target[d] /\ stamp[f] = cursor'[d]
            BY <2>2 DEF Known
        <3>2. \A p \in Polls : \A e \in eventsRead'[p] : e \in visible /\ TaskOf[e] = target[p[1]]
            BY <2>3 DEF Known
        <3> QED
            BY <2>1, <2>4, <3>1, <3>2 DEF Known
    <2> QED
        BY <1>8, <2>5 DEF NoticeClose, ClosePolls, Quiet, Shown
<1>9. ASSUME NEW c \in Connections, LoseConnection(c) PROVE IInv'
    <2>1. UnderWay(c)' = {} /\ \A d \in Connections \ {c} : UnderWay(d)' = UnderWay(d)
        BY <1>9, NothingSent DEF LoseConnection, UnderWay, EventsIn
    <2>2. cursor'[c] = 0 /\ \A d \in Connections \ {c} : cursor'[d] = cursor[d]
        BY <1>9 DEF LoseConnection, ClosePolls
    <2>3. \A p \in Polls : eventsRead'[p] \subseteq eventsRead[p]
        BY <1>9 DEF LoseConnection, ClosePolls
    <2>4. UNCHANGED <<stamp, visible, target>>
        BY <1>9 DEF LoseConnection
    <2>5. Known'
        <3>1. \A d \in Connections :
                 cursor'[d] > 0 => \E f \in visible : TaskOf[f] = target[d] /\ stamp[f] = cursor'[d]
            BY <2>2 DEF Known
        <3>2. \A p \in Polls : \A e \in eventsRead'[p] : e \in visible /\ TaskOf[e] = target[p[1]]
            BY <2>3 DEF Known
        <3> QED
            BY <2>1, <2>4, <3>1, <3>2 DEF Known
    <2> QED
        BY <1>9, <2>5 DEF LoseConnection, ClosePolls, Quiet, Shown
<1>10. ASSUME NEW c \in Connections, Receive(c) PROVE IInv'
    <2>1. /\ UnderWay(c) = Head(wire[c]) \cup UnderWay(c)'
          /\ \A d \in Connections \ {c} : UnderWay(d)' = UnderWay(d)
        BY <1>10, ReceiveWire
    <2>2. Known'
        <3>1. UNCHANGED <<stamp, visible, eventsRead, target, cursor>>
            BY <1>10 DEF Receive
        <3>2. \A d \in Connections : UnderWay(d)' \subseteq UnderWay(d)
            BY <2>1
        <3> HIDE DEF TypeOK
        <3> QED
            BY <3>1, <3>2 DEF Known
    <2>3. Quiet'
        BY <1>10 DEF Receive, Quiet
    <2>4. \A e \in Head(wire[c]) : e \in visible /\ TaskOf[e] = target[c]
        BY <2>1 DEF Known
    <2>5. conn[c] # "unused"
        BY <1>10 DEF Receive, Quiet
    <2>6. UNCHANGED <<conn, target, selected, current, visible>>
        BY <1>10 DEF Receive
    <2>7. \A e \in Events : log'[e] > 0 => log[e] > 0 \/ (target[c] = selected /\ e \in Head(wire[c]))
        <3>1. CASE target[c] = selected
            BY <1>10, <3>1 DEF Receive, StillSelected
        <3>2. CASE target[c] # selected
            BY <1>10, <3>2 DEF Receive, StillSelected
        <3> QED
            BY <3>1, <3>2
    <2>8. \A e \in Events : log'[e] > 0 => e \in visible /\ current # 0 /\ TaskOf[e] = selected
        BY <2>4, <2>5, <2>7 DEF Shown
    <2>9. Shown'
        BY <2>6, <2>8 DEF Shown
    <2> QED
        BY <2>2, <2>3, <2>9
<1>11. ASSUME NEW t \in Tasks, NEW c \in Connections, SelectTask(t, c) PROVE IInv'
    <2>1. /\ UnderWay(c) = {} /\ cursor[c] = 0
          /\ \A p \in Polls : p[1] = c => at[p] = "idle" /\ eventsRead[p] = {}
        BY <1>11, NothingSent DEF SelectTask, Quiet, UnderWay
    <2>2. /\ conn'[c] = "connecting"
          /\ \A d \in Connections \ {c} :
                /\ conn'[d] \in {"open", "closing"} <=> conn[d] \in {"open", "closing"}
                /\ conn'[d] = "unused" => conn[d] = "unused"
        BY <1>11 DEF SelectTask
    <2>3. Known'
        <3>1. UNCHANGED <<stamp, visible, eventsRead, cursor>>
              /\ \A d \in Connections : UnderWay(d)' = UnderWay(d)
            BY <1>11, WireSame DEF SelectTask
        <3>2. \A d \in Connections \ {c} : target'[d] = target[d]
            BY <1>11 DEF SelectTask
        <3> HIDE DEF TypeOK
        <3>3. \A p \in Polls : \A e \in eventsRead[p] : e \in visible /\ TaskOf[e] = target'[p[1]]
            <4>1. SUFFICES ASSUME NEW p \in Polls, NEW e \in eventsRead[p]
                           PROVE  e \in visible /\ TaskOf[e] = target'[p[1]]
                OBVIOUS
            <4>2. p[1] \in Connections \ {c}
                BY <2>1
            <4>3. e \in visible /\ TaskOf[e] = target[p[1]]
                BY DEF Known
            <4> QED
                BY <3>2, <4>2, <4>3
        <3>4. \A d \in Connections : \A e \in UnderWay(d) : e \in visible /\ TaskOf[e] = target'[d]
            BY <2>1, <3>2 DEF Known
        <3>5. \A d \in Connections :
                 cursor[d] > 0 => \E f \in visible : TaskOf[f] = target'[d] /\ stamp[f] = cursor[d]
            BY <2>1, <3>2 DEF Known
        <3> QED
            BY <3>1, <3>3, <3>4, <3>5 DEF Known
    <2>4. Quiet'
        <3>1. UNCHANGED <<at, eventsRead, cursor, wire>>
            BY <1>11 DEF SelectTask
        <3>2. \A d \in Connections \ {c} : conn'[d] \in {"unused", "connecting"}
                                         => conn[d] \in {"unused", "connecting"}
            BY <1>11 DEF SelectTask
        <3>3. wire[c] = <<>>
            BY <1>11 DEF SelectTask, Quiet
        <3> HIDE DEF TypeOK
        <3> QED
            BY <2>1, <2>2, <3>1, <3>2, <3>3 DEF Quiet
    <2> QED
        BY <1>11, <2>2, <2>3, <2>4 DEF SelectTask, Shown
<1>12. CASE UNCHANGED vars
    <2>1. Known'
        BY <1>12, WireSame DEF vars, Known
    <2> QED
        BY <1>12, <2>1 DEF vars, Quiet, Shown
<1> QED
    BY <1>1, <1>2, <1>3, <1>4, <1>5, <1>6, <1>7, <1>8, <1>9, <1>10, <1>11, <1>12
    DEF Next, PollStep

LEMMA IInvHolds == Spec => []IInv
BY InitIInv, StepIInv, TypeCorrect, PTL DEF Spec

\* Whatever is shown is of the selected task.
OnlyTheSelectedTask == \A e \in Events : log[e] > 0 => TaskOf[e] = selected

\* An event shown is an event of the selected task, however late a message of a connection
\* for another task comes.
THEOREM SelectionHolds == Spec => []OnlyTheSelectedTask
<1>1. IInv => OnlyTheSelectedTask
    BY DEF IInv, Shown, OnlyTheSelectedTask
<1> QED
    BY <1>1, IInvHolds, PTL

-----------------------------------------------------------------------------
(* What the cursor has passed                                              *)

\* An answer holds, with an event, every event of its task up to that one that is not late.
Closed(p) ==
    \A f \in eventsRead[p], e \in visible \ late :
        TaskOf[e] = TaskOf[f] /\ stamp[e] <= stamp[f] => e \in eventsRead[p]

SkipInv == NothingSkipped /\ \A p \in Polls : Closed(p)

\* What NothingSkipped asks of one event.
Delivered(e) == log[e] > 0 \/ e \in UnderWay(current)

\* Steps that read, send and show nothing.
LEMMA NothingSkippedKept ==
    ASSUME TypeOK, IInv, SkipInv,
           UNCHANGED <<visible, late, wire, selected, current, log>>,
           \A e \in visible : stamp'[e] = stamp[e],
           \A c \in Connections : cursor'[c] \in {0, cursor[c]},
           current # 0 /\ conn'[current] = "open" /\ cursor'[current] # 0 => conn[current] = "open"
    PROVE  NothingSkipped'
<1> SUFFICES ASSUME current # 0, conn'[current] = "open",
                    NEW e \in visible \ late, TaskOf[e] = selected,
                    stamp'[e] <= cursor'[current]
             PROVE  Delivered(e)
    BY WireSame DEF NothingSkipped, Delivered, UnderWay, EventsIn
<1>1. stamp'[e] = stamp[e] /\ stamp[e] > 0 /\ stamp[e] \in Nat /\ current \in Connections
    BY DEF TypeOK, IInv, Known
<1>2. cursor'[current] = cursor[current] /\ conn[current] = "open"
    BY <1>1 DEF TypeOK
<1> QED
    BY <1>1, <1>2 DEF SkipInv, NothingSkipped, Delivered

LEMMA StepSkip == TypeOK /\ IInv /\ SkipInv /\ [Next]_vars => SkipInv'
<1> SUFFICES ASSUME TypeOK, IInv, SkipInv, [Next]_vars PROVE SkipInv'
    OBVIOUS
<1> USE StreamAssumption, PollConnection DEF tableVars, pollVars, sockVars, panelVars
<1>1. ASSUME NEW e \in Events, InsertEvent(e) PROVE SkipInv'
    <2>1. \A f \in visible : stamp'[f] = stamp[f]
        BY <1>1 DEF InsertEvent, IInv, Known, TypeOK
    <2>2. \A p \in Polls : Closed(p)'
        BY <1>1, <2>1 DEF InsertEvent, SkipInv, Closed, IInv, Known
    <2>3. NothingSkipped'
        BY <1>1, <2>1, NothingSkippedKept DEF InsertEvent
    <2> QED
        BY <2>2, <2>3 DEF SkipInv
<1>2. ASSUME NEW e \in Events, CommitEvent(e) PROVE SkipInv'
    <2>1. /\ visible' = visible \cup {e} /\ late \subseteq late'
          /\ \A f \in visible : TaskOf[f] = TaskOf[e] /\ stamp[f] >= stamp[e] => e \in late'
          /\ UNCHANGED <<stamp, eventsRead, target, conn, cursor, wire, selected, current, log>>
        BY <1>2 DEF CommitEvent
    <2>2. \A p \in Polls : Closed(p)'
        <3>1. SUFFICES ASSUME NEW p \in Polls, NEW f \in eventsRead[p],
                              NEW g \in visible' \ late',
                              TaskOf[g] = TaskOf[f], stamp[g] <= stamp[f]
                       PROVE  g \in eventsRead[p]
            BY <2>1 DEF Closed
        <3>2. f \in visible /\ stamp[f] \in Nat /\ stamp[e] \in Nat
            BY DEF IInv, Known, TypeOK
        <3>3. g # e
            BY <2>1, <3>1, <3>2
        <3> QED
            BY <2>1, <3>1, <3>3 DEF SkipInv, Closed
    <2>3. NothingSkipped'
        <3>1. SUFFICES ASSUME current # 0, conn[current] = "open",
                              NEW g \in visible' \ late',
                              TaskOf[g] = selected, stamp[g] <= cursor[current]
                       PROVE  Delivered(g)
            BY <2>1, WireSame DEF NothingSkipped, Delivered, UnderWay, EventsIn
        <3>2. current \in Connections /\ target[current] = selected
            BY <3>1 DEF TypeOK, IInv, Shown
        <3>3. ASSUME g = e PROVE FALSE
            <4>1. stamp[e] > 0 /\ stamp[e] \in Nat /\ cursor[current] \in Nat
                BY <1>2, <3>2 DEF CommitEvent, TypeOK
            <4>2. cursor[current] > 0
                BY <3>1, <3>3, <4>1
            <4>3. PICK f \in visible : TaskOf[f] = target[current] /\ stamp[f] = cursor[current]
                BY <3>2, <4>2 DEF IInv, Known
            <4> QED
                BY <2>1, <3>1, <3>2, <3>3, <4>3
        <3>4. g \in visible \ late
            BY <2>1, <3>1, <3>3
        <3> QED
            BY <3>1, <3>4 DEF SkipInv, NothingSkipped, Delivered
    <2> QED
        BY <2>2, <2>3 DEF SkipInv
<1>3. ASSUME NEW p \in Polls, StartPoll(p) PROVE SkipInv'
    <2>1. NothingSkipped'
        BY <1>3, NothingSkippedKept DEF StartPoll
    <2> QED
        BY <1>3, <2>1 DEF StartPoll, SkipInv, Closed
<1>4. ASSUME NEW p \in Polls, ReadEvents(p) PROVE SkipInv'
    <2>1. NothingSkipped'
        BY <1>4, NothingSkippedKept DEF ReadEvents
    <2>2. eventsRead'[p] = {e \in visible : TaskOf[e] = target[p[1]]}
          /\ \A q \in Polls \ {p} : eventsRead'[q] = eventsRead[q]
        BY <1>4 DEF ReadEvents, TypeOK
    <2>3. Closed(p)'
        BY <1>4, <2>2 DEF ReadEvents, Closed
    <2>4. \A q \in Polls \ {p} : Closed(q)'
        BY <1>4, <2>2 DEF ReadEvents, Closed, SkipInv
    <2> QED
        BY <2>1, <2>3, <2>4 DEF SkipInv
<1>5. ASSUME NEW p \in Polls, AnswerPoll(p) PROVE SkipInv'
    <2>1. /\ NewEvents(p) \subseteq eventsRead[p]
          /\ UnderWay(p[1])' = UnderWay(p[1]) \cup NewEvents(p)
          /\ \A c \in Connections \ {p[1]} : UnderWay(c)' = UnderWay(c)
        BY <1>5, AnswerWire
    <2>2. UNCHANGED <<stamp, visible, late, conn, target, selected, current, log>>
        BY <1>5 DEF AnswerPoll
    <2>3. \A q \in Polls : eventsRead'[q] \in {{}, eventsRead[q]}
        BY <1>5 DEF AnswerPoll, TypeOK
    <2>4. \A q \in Polls : Closed(q)'
        BY <2>2, <2>3 DEF Closed, SkipInv
    <2>5. NothingSkipped'
        <3>1. SUFFICES ASSUME current # 0, conn[current] = "open",
                              NEW e \in visible \ late,
                              TaskOf[e] = selected, stamp[e] <= cursor'[current]
                       PROVE  log[e] > 0 \/ e \in EventsIn(wire'[current])
            BY <2>2 DEF NothingSkipped, UnderWay, EventsIn
        <3>2. current \in Connections /\ target[current] = selected
            BY <3>1 DEF TypeOK, IInv, Shown
        <3>3. \A c \in Connections : UnderWay(c) = EventsIn(wire[c]) /\ UnderWay(c)' = EventsIn(wire'[c])
            BY DEF UnderWay, EventsIn
        <3>4. ASSUME stamp[e] <= cursor[current] PROVE log[e] > 0 \/ e \in EventsIn(wire'[current])
            <4>1. Delivered(e)
                BY <3>1, <3>4 DEF SkipInv, NothingSkipped, Delivered
            <4> QED
                BY <2>1, <3>2, <3>3, <4>1 DEF Delivered
        <3>5. ASSUME ~(stamp[e] <= cursor[current]) PROVE e \in EventsIn(wire'[current])
            <4>1. cursor'[current] # cursor[current]
                BY <3>1, <3>5
            <4>2. p[1] = current
                  /\ \E last \in eventsRead[p] : cursor'[current] = stamp[last]
                BY <1>5, <3>2, <4>1 DEF AnswerPoll, MoveCursor, TypeOK
            <4>3. PICK last \in eventsRead[p] : cursor'[current] = stamp[last]
                BY <4>2
            <4>4. TaskOf[last] = selected
                BY <3>2, <4>2 DEF IInv, Known
            <4>5. e \in eventsRead[p]
                BY <3>1, <4>3, <4>4 DEF SkipInv, Closed
            <4>6. stamp[e] > cursor[current]
                BY <3>2, <3>5 DEF TypeOK
            <4> QED
                BY <2>1, <3>2, <3>3, <4>2, <4>5, <4>6 DEF NewEvents, Since
        <3> QED
            BY <3>4, <3>5
    <2> QED
        BY <2>4, <2>5 DEF SkipInv
<1>6. ASSUME NEW p \in Polls, FailPoll(p) PROVE SkipInv'
    <2>1. NothingSkipped'
        BY <1>6, NothingSkippedKept DEF FailPoll
    <2>2. \A q \in Polls : eventsRead'[q] \in {{}, eventsRead[q]}
        BY <1>6 DEF FailPoll, TypeOK
    <2> QED
        BY <1>6, <2>1, <2>2 DEF FailPoll, SkipInv, Closed
<1>7. ASSUME NEW c \in Connections, Accept(c) PROVE SkipInv'
    <2>1. cursor[c] = 0 /\ \A d \in Connections \ {c} : conn'[d] = conn[d]
        BY <1>7 DEF Accept, IInv, Quiet, TypeOK
    <2>2. current # 0 /\ conn'[current] = "open" /\ cursor[current] # 0 => conn[current] = "open"
        BY <2>1 DEF TypeOK
    <2>3. NothingSkipped'
        BY <1>7, <2>2, NothingSkippedKept DEF Accept
    <2> QED
        BY <1>7, <2>3 DEF Accept, SkipInv, Closed
<1>8. ASSUME NEW c \in Connections, NoticeClose(c) PROVE SkipInv'
    <2>1. /\ \A d \in Connections : cursor'[d] \in {0, cursor[d]}
          /\ \A d \in Connections : conn'[d] = "open" => conn[d] = "open"
          /\ \A q \in Polls : eventsRead'[q] \in {{}, eventsRead[q]}
        BY <1>8 DEF NoticeClose, ClosePolls, TypeOK
    <2>2. NothingSkipped'
        BY <1>8, <2>1, NothingSkippedKept DEF NoticeClose, TypeOK
    <2> QED
        BY <1>8, <2>1, <2>2 DEF NoticeClose, SkipInv, Closed
<1>9. ASSUME NEW c \in Connections, LoseConnection(c) PROVE SkipInv'
    <2>1. /\ \A d \in Connections \ {c} : cursor'[d] = cursor[d] /\ UnderWay(d)' = UnderWay(d)
          /\ \A d \in Connections : conn'[d] = "open" => d # c /\ conn[d] = "open"
          /\ \A q \in Polls : eventsRead'[q] \in {{}, eventsRead[q]}
        BY <1>9 DEF LoseConnection, ClosePolls, TypeOK, UnderWay, EventsIn
    <2>2. UNCHANGED <<stamp, visible, late, selected, current, log>>
        BY <1>9 DEF LoseConnection
    <2>3. NothingSkipped'
        BY <2>1, <2>2 DEF SkipInv, NothingSkipped, TypeOK
    <2> QED
        BY <2>1, <2>2, <2>3 DEF SkipInv, Closed
<1>10. ASSUME NEW c \in Connections, Receive(c) PROVE SkipInv'
    <2>1. /\ Head(wire[c]) \subseteq Events
          /\ UnderWay(c) = Head(wire[c]) \cup UnderWay(c)'
          /\ \A d \in Connections \ {c} : UnderWay(d)' = UnderWay(d)
        BY <1>10, ReceiveWire
    <2>2. UNCHANGED <<stamp, visible, late, conn, cursor, target, eventsRead, selected, current>>
        BY <1>10 DEF Receive
    <2>3. \A e \in Events : log[e] > 0 => log'[e] > 0
        BY <1>10 DEF Receive, TypeOK
    <2>4. target[c] = selected => \A e \in Head(wire[c]) : log'[e] > 0
        <3>1. log \in [Events -> Nat]
            BY DEF TypeOK
        <3>2. SUFFICES ASSUME target[c] = selected, NEW e \in Head(wire[c]) PROVE log'[e] > 0
            OBVIOUS
        <3>3. e \in Events /\ log[e] \in Nat /\ log'[e] = log[e] + 1
            BY <1>10, <2>1, <3>1, <3>2 DEF Receive, StillSelected
        <3> QED
            BY <3>3
    <2>5. NothingSkipped'
        <3>1. SUFFICES ASSUME current # 0, conn[current] = "open",
                              NEW e \in visible \ late,
                              TaskOf[e] = selected, stamp[e] <= cursor[current]
                       PROVE  log'[e] > 0 \/ e \in EventsIn(wire'[current])
            BY <2>2 DEF NothingSkipped, UnderWay, EventsIn
        <3>2. current \in Connections /\ target[current] = selected /\ e \in Events
            BY <3>1 DEF TypeOK, IInv, Shown
        <3>3. Delivered(e)
            BY <3>1 DEF SkipInv, NothingSkipped, Delivered
        <3>4. \A d \in Connections : UnderWay(d)' = EventsIn(wire'[d])
            BY DEF UnderWay, EventsIn
        <3> QED
            BY <2>1, <2>3, <2>4, <3>2, <3>3, <3>4 DEF Delivered
    <2> QED
        BY <2>2, <2>5 DEF SkipInv, Closed
<1>11. ASSUME NEW t \in Tasks, NEW c \in Connections, SelectTask(t, c) PROVE SkipInv'
    <2>1. current' = c /\ conn'[c] = "connecting"
        BY <1>11 DEF SelectTask, TypeOK
    <2>2. NothingSkipped'
        BY <2>1 DEF NothingSkipped
    <2> QED
        BY <1>11, <2>2 DEF SelectTask, SkipInv, Closed
<1>12. CASE UNCHANGED vars
    <2>1. NothingSkipped'
        BY <1>12, NothingSkippedKept DEF vars
    <2> QED
        BY <1>12, <2>1 DEF vars, SkipInv, Closed
<1> QED
    BY <1>1, <1>2, <1>3, <1>4, <1>5, <1>6, <1>7, <1>8, <1>9, <1>10, <1>11, <1>12
    DEF Next, PollStep

LEMMA SkipHolds == Spec => []SkipInv
<1>1. Init => SkipInv
    BY DEF Init, SkipInv, NothingSkipped, Closed
<1> QED
    BY <1>1, StepSkip, IInvHolds, TypeCorrect, PTL DEF Spec

\* Whatever polls overlap or fail, the cursor of the panel's connection never passes an
\* event that was not sent, unless it was committed late.
THEOREM CursorPassesNothing == Spec => []NothingSkipped
<1>1. SkipInv => NothingSkipped
    BY DEF SkipInv
<1> QED
    BY <1>1, SkipHolds, PTL

-----------------------------------------------------------------------------
(* How often an event is shown                                             *)

\* No event is in two messages.
Distinct(s) == \A i, j \in 1..Len(s) : i # j => s[i] \cap s[j] = {}

LEMMA SendingNew ==
    ASSUME NEW s \in Seq(SUBSET Events), NEW m \in SUBSET Events,
           Distinct(s), EventsIn(s) \cap m = {}
    PROVE  Distinct(Append(s, m))
<1>1. /\ Len(s) \in Nat /\ Len(Append(s, m)) = Len(s) + 1
      /\ \A i \in 1..Len(s) : Append(s, m)[i] = s[i] /\ s[i] \cap m = {}
      /\ Append(s, m)[Len(s) + 1] = m
    BY DEF EventsIn
<1> SUFFICES ASSUME NEW i \in 1..Len(s) + 1, NEW j \in 1..Len(s) + 1, i # j
             PROVE  Append(s, m)[i] \cap Append(s, m)[j] = {}
    BY <1>1 DEF Distinct
<1>2. CASE i = Len(s) + 1
    <2>1. j \in 1..Len(s)
        BY <1>1, <1>2
    <2> QED
        BY <1>1, <1>2, <2>1
<1>3. CASE j = Len(s) + 1
    <2>1. i \in 1..Len(s)
        BY <1>1, <1>3
    <2> QED
        BY <1>1, <1>3, <2>1
<1>4. CASE i # Len(s) + 1 /\ j # Len(s) + 1
    <2>1. i \in 1..Len(s) /\ j \in 1..Len(s)
        BY <1>1, <1>4
    <2> QED
        BY <1>1, <2>1 DEF Distinct
<1> QED
    BY <1>2, <1>3, <1>4

LEMMA ReceivingOne ==
    ASSUME NEW s \in Seq(SUBSET Events), s # <<>>, Distinct(s)
    PROVE  Distinct(Tail(s)) /\ Head(s) \cap EventsIn(Tail(s)) = {}
<1>1. /\ Len(s) \in Nat \ {0} /\ Head(s) = s[1] /\ Len(Tail(s)) = Len(s) - 1
      /\ \A i \in 1..Len(s) - 1 : Tail(s)[i] = s[i + 1] /\ i + 1 \in 1..Len(s)
    OBVIOUS
<1>2. Distinct(Tail(s))
    <2> SUFFICES ASSUME NEW i \in 1..Len(s) - 1, NEW j \in 1..Len(s) - 1, i # j
                 PROVE  s[i + 1] \cap s[j + 1] = {}
        BY <1>1 DEF Distinct
    <2> QED
        BY <1>1 DEF Distinct
<1>3. ASSUME NEW e, e \in Head(s), e \in EventsIn(Tail(s)) PROVE FALSE
    <2>1. PICK i \in 1..Len(s) - 1 : e \in s[i + 1]
        BY <1>1, <1>3 DEF EventsIn
    <2>2. 1 \in 1..Len(s) /\ i + 1 \in 1..Len(s) /\ i + 1 # 1
        BY <1>1
    <2> QED
        BY <1>1, <1>3, <2>1, <2>2 DEF Distinct
<1> QED
    BY <1>2, <1>3

\* Without overlap a connection has one poll at a time, which has read the event the
\* cursor stands at.
OnePoll ==
    /\ \A p, q \in Polls :
          p[1] = q[1] /\ p[1] \notin overlapped /\ at[p] # "idle" /\ at[q] # "idle" => p = q
    /\ \A p \in Polls :
          p[1] \notin overlapped /\ at[p] = "events" /\ cursor[p[1]] > 0
              => \E f \in eventsRead[p] : stamp[f] = cursor[p[1]]

\* It sends an event once, and no event beyond its cursor.
Up(c) == conn[c] \in {"open", "closing"}
SentOnce ==
    \A c \in Connections \ overlapped :
        /\ Distinct(wire[c])
        /\ Up(c) => \A e \in UnderWay(c) : stamp[e] <= cursor[c]

\* The panel's connection has no overlap, and none before it was for the selected task.
Single ==
    /\ current \notin overlapped
    /\ \A c \in Connections \ {current} : target[c] # selected

LoggedOnce ==
    Single => \A e \in Events : log[e] > 0 =>
        /\ log[e] = 1 /\ e \notin UnderWay(current)
        /\ conn[current] # "connecting"
        /\ Up(current) => stamp[e] <= cursor[current]

OnceInv == OnePoll /\ SentOnce /\ LoggedOnce

\* Steps that send and show nothing.
LEMMA SentAndLoggedKept ==
    ASSUME TypeOK, IInv, OnceInv,
           UNCHANGED <<target, selected, current, log>>,
           overlapped \subseteq overlapped',
           \A e \in visible : stamp'[e] = stamp[e],
           \A c \in Connections : wire'[c] \in {<<>>, wire[c]},
           \A c \in Connections : Up(c)' => cursor'[c] = cursor[c],
           \A c \in Connections : Up(c)' /\ ~Up(c) => conn[c] = "connecting",
           \A c \in Connections : conn'[c] = "connecting" => conn[c] = "connecting"
    PROVE  SentOnce' /\ LoggedOnce'
<1>1. \A c \in Connections : UnderWay(c) = EventsIn(wire[c]) /\ UnderWay(c)' = EventsIn(wire'[c])
    BY DEF UnderWay, EventsIn
<1>2. EventsIn(<<>>) = {} /\ Distinct(<<>>)
    BY NothingSent DEF Distinct
<1>3. \A c \in Connections : EventsIn(wire'[c]) \subseteq EventsIn(wire[c])
    BY <1>2
<1>4. \A c \in Connections : \A e \in EventsIn(wire[c]) : e \in visible
    BY <1>1 DEF IInv, Known
<1>5. SentOnce'
    <2>1. SUFFICES ASSUME NEW c \in Connections \ overlapped
                   PROVE  /\ Distinct(wire'[c])
                          /\ Up(c)' => \A e \in EventsIn(wire'[c]) : stamp'[e] <= cursor'[c]
        BY <1>1 DEF SentOnce, Distinct
    <2>2. Distinct(wire[c]) /\ (Up(c) => \A e \in EventsIn(wire[c]) : stamp[e] <= cursor[c])
        BY <1>1 DEF OnceInv, SentOnce
    <2>3. CASE Up(c)
        BY <1>2, <1>3, <1>4, <2>2, <2>3
    <2>4. CASE ~Up(c) /\ Up(c)'
        <3>1. wire[c] = <<>>
            BY <2>4 DEF IInv, Quiet
        <3> QED
            BY <1>2, <1>3, <3>1
    <2>5. CASE ~Up(c)'
        BY <1>2, <2>2, <2>5
    <2> QED
        BY <2>3, <2>4, <2>5
<1>6. LoggedOnce'
    <2>1. SUFFICES ASSUME Single, NEW e \in Events, log[e] > 0
                   PROVE  /\ log[e] = 1 /\ e \notin EventsIn(wire'[current])
                          /\ conn'[current] # "connecting"
                          /\ conn'[current] \in {"open", "closing"} => stamp'[e] <= cursor'[current]
        BY DEF LoggedOnce, Single, Up, UnderWay, EventsIn
    <2>2. e \in visible /\ current \in Connections
        BY <2>1 DEF TypeOK, IInv, Shown
    <2>3. /\ log[e] = 1 /\ e \notin EventsIn(wire[current])
          /\ conn[current] # "connecting"
          /\ Up(current) => stamp[e] <= cursor[current]
        BY <1>1, <2>1, <2>2 DEF OnceInv, LoggedOnce
    <2>4. /\ e \notin EventsIn(wire'[current]) /\ conn'[current] # "connecting"
          /\ stamp'[e] = stamp[e]
        BY <1>3, <2>2, <2>3
    <2>5. ASSUME conn'[current] \in {"open", "closing"} PROVE stamp'[e] <= cursor'[current]
        BY <2>2, <2>3, <2>4, <2>5 DEF Up
    <2> QED
        BY <2>3, <2>4, <2>5
<1> QED
    BY <1>5, <1>6

LEMMA StepOnce == TypeOK /\ TypeOK' /\ IInv /\ OnceInv /\ [Next]_vars => OnceInv'
<1> SUFFICES ASSUME TypeOK, TypeOK', IInv, OnceInv, [Next]_vars PROVE OnceInv'
    OBVIOUS
<1> USE StreamAssumption, PollConnection DEF tableVars, pollVars, sockVars, panelVars
<1>1. ASSUME NEW e \in Events, InsertEvent(e) PROVE OnceInv'
    <2>1. \A f \in visible : stamp'[f] = stamp[f]
        BY <1>1 DEF InsertEvent, IInv, Known, TypeOK
    <2>2. SentOnce' /\ LoggedOnce'
        BY <1>1, <2>1, SentAndLoggedKept DEF InsertEvent, Up
    <2>3. OnePoll'
        BY <1>1, <2>1 DEF InsertEvent, OnceInv, OnePoll, IInv, Known
    <2> QED
        BY <2>2, <2>3 DEF OnceInv
<1>2. ASSUME NEW e \in Events, CommitEvent(e) PROVE OnceInv'
    <2>1. SentOnce' /\ LoggedOnce'
        BY <1>2, SentAndLoggedKept DEF CommitEvent, Up
    <2>2. OnePoll'
        BY <1>2 DEF CommitEvent, OnceInv, OnePoll
    <2> QED
        BY <2>1, <2>2 DEF OnceInv
<1>3. ASSUME NEW p \in Polls, StartPoll(p) PROVE OnceInv'
    <2>1. overlapped \subseteq overlapped'
        BY <1>3 DEF StartPoll
    <2>2. SentOnce' /\ LoggedOnce'
        BY <1>3, <2>1, SentAndLoggedKept DEF StartPoll, Up
    <2>3. OnePoll'
        <3>1. at' = [at EXCEPT ![p] = "task"] /\ at \in [Polls -> {"idle", "task", "events"}]
            BY <1>3 DEF StartPoll, TypeOK
        <3>2. p[1] \notin overlapped' => \A q \in Polls : q[1] = p[1] => at[q] = "idle"
            BY <1>3 DEF StartPoll
        <3>3. UNCHANGED <<cursor, eventsRead, stamp>>
            BY <1>3 DEF StartPoll
        <3> QED
            BY <2>1, <3>1, <3>2, <3>3 DEF OnceInv, OnePoll
    <2> QED
        BY <2>2, <2>3 DEF OnceInv
<1>4. ASSUME NEW p \in Polls, ReadEvents(p) PROVE OnceInv'
    <2>1. SentOnce' /\ LoggedOnce'
        BY <1>4, SentAndLoggedKept DEF ReadEvents, Up
    <2>2. /\ eventsRead'[p] = {e \in visible : TaskOf[e] = target[p[1]]}
          /\ \A q \in Polls \ {p} : eventsRead'[q] = eventsRead[q] /\ at'[q] = at[q]
          /\ at[p] = "task"
          /\ UNCHANGED <<overlapped, cursor, stamp>>
        <3>1. DOMAIN at = Polls /\ DOMAIN eventsRead = Polls
            BY DEF TypeOK
        <3> QED
            BY <1>4, <3>1 DEF ReadEvents
    <2>3. cursor[p[1]] > 0 => \E f \in eventsRead'[p] : stamp[f] = cursor[p[1]]
        BY ZenonT(40), <2>2 DEF IInv, Known
    <2>4. OnePoll'
        BY <2>2, <2>3 DEF OnceInv, OnePoll
    <2> QED
        BY <2>1, <2>4 DEF OnceInv
<1>5. ASSUME NEW p \in Polls, AnswerPoll(p) PROVE OnceInv'
    <2> DEFINE c == p[1]
    <2>1. /\ NewEvents(p) \subseteq eventsRead[p] /\ NewEvents(p) \in SUBSET Events
          /\ UnderWay(c)' = UnderWay(c) \cup NewEvents(p)
          /\ \A d \in Connections \ {c} : UnderWay(d)' = UnderWay(d)
        BY <1>5, AnswerWire DEF NewEvents, TypeOK
    <2>2. /\ UNCHANGED <<stamp, overlapped, conn, target, selected, current, log>>
          /\ \A q \in Polls \ {p} : at'[q] = at[q] /\ eventsRead'[q] = eventsRead[q]
          /\ at[p] = "events" /\ at'[p] = "idle"
          /\ c \in Connections /\ \A d \in Connections \ {c} : cursor'[d] = cursor[d]
        BY <1>5 DEF AnswerPoll, MoveCursor, TypeOK
    <2>3. /\ wire'[c] \in {wire[c], Append(wire[c], NewEvents(p))}
          /\ \A d \in Connections \ {c} : wire'[d] = wire[d]
        <3>1. wire' = wire \/ wire' = [wire EXCEPT ![c] = Append(wire[c], NewEvents(p))]
            BY <1>5 DEF AnswerPoll
        <3>2. DOMAIN wire = Connections
            BY DEF TypeOK
        <3> QED
            BY <2>2, <3>1, <3>2
    <2>4. /\ stamp \in [Events -> Nat] /\ cursor \in [Connections -> Nat]
          /\ eventsRead \in [Polls -> SUBSET Events] /\ cursor' \in [Connections -> Nat]
          /\ visible \subseteq Events
        <3>1. stamp \in [Events -> Nat]
            BY DEF TypeOK
        <3>2. cursor \in [Connections -> Nat]
            BY DEF TypeOK
        <3>3. cursor' \in [Connections -> Nat]
            BY DEF TypeOK
        <3>4. eventsRead \in [Polls -> SUBSET Events] /\ visible \subseteq Events
            BY DEF TypeOK
        <3> QED
            BY <3>1, <3>2, <3>3, <3>4
    <2>5. Up(c)
        BY <2>2 DEF IInv, Quiet, Up
    <2>6. \A e \in NewEvents(p) : stamp[e] > cursor[c]
        BY DEF NewEvents, Since
    \* The poll moves the cursor on, to the last of what it sends.
    <2>7. ASSUME c \notin overlapped
          PROVE  cursor'[c] >= cursor[c] /\ \A e \in NewEvents(p) : stamp[e] <= cursor'[c]
        <3>1. CASE eventsRead[p] = {}
            <4>1. cursor' = cursor /\ NewEvents(p) = {}
                BY <1>5, <2>1, <3>1 DEF AnswerPoll, MoveCursor
            <4>2. cursor[c] \in Nat
                BY <2>2, <2>4
            <4> QED
                BY <4>1, <4>2
        <3>2. CASE eventsRead[p] # {}
            <4>1. PICK last \in eventsRead[p] :
                      /\ \A e \in eventsRead[p] : stamp[e] <= stamp[last]
                      /\ cursor' = [cursor EXCEPT ![c] = stamp[last]]
                BY <1>5, <3>2 DEF AnswerPoll, MoveCursor
            <4>2. cursor'[c] = stamp[last] /\ stamp[last] \in Nat
                BY <2>2, <2>4, <4>1
            <4>3. cursor[c] > 0 => \E f \in eventsRead[p] : stamp[f] = cursor[c]
                BY <2>2, <2>7 DEF OnceInv, OnePoll
            <4>4. cursor[c] \in Nat
                BY <2>2, <2>4
            <4>5. cursor[c] <= stamp[last]
                BY <4>1, <4>2, <4>3, <4>4
            <4> QED
                BY <2>1, <4>1, <4>2, <4>4, <4>5
        <3> QED
            BY <3>1, <3>2
    <2>8. OnePoll'
        <3>1. \A q \in Polls : at'[q] # "idle" => q # p /\ at[q] # "idle"
            BY <2>2
        <3>2. \A q \in Polls : q[1] = c /\ c \notin overlapped => at'[q] = "idle"
            BY <2>2, <3>1 DEF OnceInv, OnePoll
        <3> HIDE DEF c
        <3>3. \A q \in Polls : q[1] # c => cursor'[q[1]] = cursor[q[1]]
            BY <2>2
        <3> QED
            BY <2>2, <3>1, <3>2, <3>3 DEF OnceInv, OnePoll
    <2>9. \A d \in Connections : UnderWay(d) = EventsIn(wire[d]) /\ UnderWay(d)' = EventsIn(wire'[d])
        BY DEF UnderWay, EventsIn
    <2>10. c \notin overlapped => UnderWay(c) \cap NewEvents(p) = {}
        <3>1. ASSUME c \notin overlapped, NEW e, e \in UnderWay(c), e \in NewEvents(p) PROVE FALSE
            <4>1. stamp[e] <= cursor[c]
                BY <2>2, <2>5, <3>1 DEF OnceInv, SentOnce
            <4>2. stamp[e] > cursor[c] /\ stamp[e] \in Nat /\ cursor[c] \in Nat
                BY <2>1, <2>2, <2>4, <2>6, <3>1
            <4> QED
                BY <4>1, <4>2
        <3> QED
            BY <3>1
    <2>11. SentOnce'
        <3>1. SUFFICES ASSUME NEW d \in Connections \ overlapped
                       PROVE  /\ Distinct(wire'[d])
                              /\ Up(d) => \A e \in EventsIn(wire'[d]) : stamp[e] <= cursor'[d]
            BY <2>2, <2>9 DEF SentOnce, Distinct, Up
        <3>2. Distinct(wire[d]) /\ (Up(d) => \A e \in EventsIn(wire[d]) : stamp[e] <= cursor[d])
            BY <2>9 DEF OnceInv, SentOnce
        <3>3. CASE d # c
            BY <2>2, <2>3, <3>2, <3>3
        <3>4. CASE d = c
            <4>1. Distinct(Append(wire[c], NewEvents(p)))
                <5>1. wire[c] \in Seq(SUBSET Events)
                    BY <2>2 DEF TypeOK
                <5>2. EventsIn(wire[c]) \cap NewEvents(p) = {}
                    BY <2>2, <2>9, <2>10, <3>4
                <5> QED
                    BY <2>1, <3>2, <3>4, <5>1, <5>2, SendingNew
            <4>2. ASSUME NEW e, e \in EventsIn(wire'[c]) PROVE stamp[e] <= cursor'[c]
                <5>1. CASE e \in NewEvents(p)
                    BY <2>7, <3>4, <5>1
                <5>2. CASE e \in EventsIn(wire[c])
                    <6>1. stamp[e] <= cursor[c] /\ cursor'[c] >= cursor[c]
                        BY <2>5, <2>7, <3>2, <3>4, <5>2
                    <6>2. e \in Events
                        <7>1. e \in UnderWay(c)
                            BY <2>2, <2>9, <5>2
                        <7>2. e \in visible
                            BY <2>2, <7>1 DEF IInv, Known
                        <7> QED
                            BY <2>4, <7>2
                    <6>3. stamp[e] \in Nat /\ cursor[c] \in Nat /\ cursor'[c] \in Nat
                        BY <2>2, <2>4, <6>2
                    <6> QED
                        BY <6>1, <6>3
                <5> QED
                    BY <2>1, <2>2, <2>9, <4>2, <5>1, <5>2
            <4> QED
                BY <2>3, <3>2, <3>4, <4>1, <4>2
        <3> QED
            BY <3>3, <3>4
    <2>12. LoggedOnce'
        <3>1. SUFFICES ASSUME Single, NEW e \in Events, log[e] > 0
                       PROVE  /\ log[e] = 1 /\ e \notin EventsIn(wire'[current])
                              /\ conn[current] # "connecting"
                              /\ Up(current) => stamp[e] <= cursor'[current]
            BY <2>2 DEF LoggedOnce, Single, Up, UnderWay, EventsIn
        <3>2. current \in Connections /\ current \notin overlapped
            BY <3>1 DEF TypeOK, IInv, Shown, Single
        <3>3. /\ log[e] = 1 /\ e \notin UnderWay(current)
              /\ conn[current] # "connecting"
              /\ Up(current) => stamp[e] <= cursor[current]
            BY <3>1 DEF OnceInv, LoggedOnce
        <3>4. CASE current # c
            BY <2>1, <2>2, <2>9, <3>2, <3>3, <3>4
        <3>5. CASE current = c
            <4>1. stamp[e] <= cursor[c] /\ e \notin NewEvents(p)
                <5>1. stamp[e] <= cursor[c]
                    BY <2>5, <3>3, <3>5
                <5>2. stamp[e] \in Nat /\ cursor[c] \in Nat
                    BY <2>2, <2>4
                <5> QED
                    BY <2>6, <5>1, <5>2
            <4>2. cursor'[c] \in Nat /\ stamp[e] <= cursor'[c]
                <5>1. stamp[e] \in Nat /\ cursor[c] \in Nat /\ cursor'[c] \in Nat
                    BY <2>2, <2>4
                <5>2. cursor'[c] >= cursor[c]
                    BY <2>7, <3>2, <3>5
                <5> QED
                    BY <4>1, <5>1, <5>2
            <4> QED
                BY <2>1, <2>2, <2>9, <3>3, <3>5, <4>1, <4>2
        <3> QED
            BY <3>4, <3>5
    <2> QED
        BY <2>8, <2>11, <2>12 DEF OnceInv
<1>6. ASSUME NEW p \in Polls, FailPoll(p) PROVE OnceInv'
    <2>1. SentOnce' /\ LoggedOnce'
        BY <1>6, SentAndLoggedKept DEF FailPoll, Up
    <2>2. OnePoll'
        BY <1>6 DEF FailPoll, TypeOK, OnceInv, OnePoll
    <2> QED
        BY <2>1, <2>2 DEF OnceInv
<1>7. ASSUME NEW c \in Connections, Accept(c) PROVE OnceInv'
    <2>1. \A d \in Connections : conn'[d] \in {conn[d], "open"}
                                 /\ (conn'[d] # conn[d] => conn[d] = "connecting")
        BY <1>7 DEF Accept, TypeOK
    <2>2. SentOnce' /\ LoggedOnce'
        BY <1>7, <2>1, SentAndLoggedKept DEF Accept, Up
    <2>3. OnePoll'
        BY <1>7 DEF Accept, OnceInv, OnePoll
    <2> QED
        BY <2>2, <2>3 DEF OnceInv
<1>8. ASSUME NEW c \in Connections, NoticeClose(c) PROVE OnceInv'
    <2>1. \A d \in Connections : IF d = c THEN conn'[d] = "closed"
                                 ELSE conn'[d] = conn[d] /\ cursor'[d] = cursor[d]
        BY <1>8 DEF NoticeClose, ClosePolls, TypeOK
    <2>2. SentOnce' /\ LoggedOnce'
        BY <1>8, <2>1, SentAndLoggedKept DEF NoticeClose, Up
    <2>3. OnePoll'
        BY <1>8, <2>1 DEF NoticeClose, ClosePolls, OnceInv, OnePoll
    <2> QED
        BY <2>2, <2>3 DEF OnceInv
<1>9. ASSUME NEW c \in Connections, LoseConnection(c) PROVE OnceInv'
    <2>1. \A d \in Connections : IF d = c THEN conn'[d] = "closed" /\ wire'[d] = <<>>
                                 ELSE conn'[d] = conn[d] /\ cursor'[d] = cursor[d]
                                      /\ wire'[d] = wire[d]
        BY <1>9 DEF LoseConnection, ClosePolls, TypeOK
    <2>2. SentOnce' /\ LoggedOnce'
        BY <1>9, <2>1, SentAndLoggedKept DEF LoseConnection, Up
    <2>3. OnePoll'
        BY <1>9, <2>1 DEF LoseConnection, ClosePolls, OnceInv, OnePoll
    <2> QED
        BY <2>2, <2>3 DEF OnceInv
<1>10. ASSUME NEW c \in Connections, Receive(c) PROVE OnceInv'
    <2>1. wire[c] \in Seq(SUBSET Events) /\ wire[c] # <<>> /\ wire'[c] = Tail(wire[c])
          /\ \A d \in Connections \ {c} : wire'[d] = wire[d]
        BY <1>10 DEF Receive, TypeOK
    <2>2. UNCHANGED <<stamp, at, eventsRead, overlapped, cursor, conn, target, selected, current>>
        BY <1>10 DEF Receive
    <2>3. EventsIn(wire[c]) = Head(wire[c]) \cup EventsIn(Tail(wire[c]))
          /\ (Distinct(wire[c]) => /\ Distinct(Tail(wire[c]))
                                   /\ Head(wire[c]) \cap EventsIn(Tail(wire[c])) = {})
        BY <2>1, Receiving, ReceivingOne
    <2>4. \A d \in Connections : UnderWay(d) = EventsIn(wire[d]) /\ UnderWay(d)' = EventsIn(wire'[d])
        BY DEF UnderWay, EventsIn
    <2>5. OnePoll'
        BY <2>2 DEF OnceInv, OnePoll
    <2>6. SentOnce'
        <3>1. SUFFICES ASSUME NEW d \in Connections \ overlapped
                       PROVE  /\ Distinct(wire'[d])
                              /\ Up(d) => \A e \in EventsIn(wire'[d]) : stamp[e] <= cursor[d]
            BY <2>2, <2>4 DEF SentOnce, Distinct, Up
        <3>2. Distinct(wire[d]) /\ (Up(d) => \A e \in EventsIn(wire[d]) : stamp[e] <= cursor[d])
            BY <2>4 DEF OnceInv, SentOnce
        <3> QED
            BY <2>1, <2>3, <3>2
    <2>7. LoggedOnce'
        <3>1. SUFFICES ASSUME Single, NEW e \in Events, log'[e] > 0
                       PROVE  /\ log'[e] = 1 /\ e \notin EventsIn(wire'[current])
                              /\ conn[current] # "connecting"
                              /\ Up(current) => stamp[e] <= cursor[current]
            BY <2>2 DEF LoggedOnce, Single, Up, UnderWay, EventsIn
        <3>2. log \in [Events -> Nat]
            BY DEF TypeOK
        <3>3. CASE target[c] = selected /\ e \in Head(wire[c])
            <4>1. c = current /\ c \notin overlapped
                BY <3>1, <3>3 DEF Single
            <4>2. e \in UnderWay(c)
                BY <2>3, <2>4, <3>3
            <4>3. log[e] = 0
                BY <3>1, <3>2, <4>1, <4>2 DEF OnceInv, LoggedOnce
            <4>4. log'[e] = 1
                BY <1>10, <3>2, <3>3, <4>3 DEF Receive, StillSelected
            <4>5. e \notin EventsIn(wire'[c])
                BY <2>1, <2>3, <3>3, <4>1 DEF OnceInv, SentOnce
            <4>6. conn[c] # "connecting"
                BY <2>1 DEF IInv, Quiet
            <4>7. Up(c) => stamp[e] <= cursor[c]
                BY <4>1, <4>2 DEF OnceInv, SentOnce
            <4> QED
                BY <4>1, <4>4, <4>5, <4>6, <4>7
        <3>4. CASE ~(target[c] = selected /\ e \in Head(wire[c]))
            <4>1. log'[e] = log[e]
                BY <1>10, <3>2, <3>4 DEF Receive, StillSelected
            <4>2. /\ log[e] = 1 /\ e \notin UnderWay(current)
                  /\ conn[current] # "connecting"
                  /\ Up(current) => stamp[e] <= cursor[current]
                BY <3>1, <4>1 DEF OnceInv, LoggedOnce
            <4>3. current \in Connections
                BY <3>1, <4>1 DEF TypeOK, IInv, Shown
            <4>4. EventsIn(wire'[current]) \subseteq UnderWay(current)
                BY <2>1, <2>3, <2>4, <4>3
            <4> QED
                BY <4>1, <4>2, <4>4
        <3> QED
            BY <3>3, <3>4
    <2> QED
        BY <2>5, <2>6, <2>7 DEF OnceInv
<1>11. ASSUME NEW t \in Tasks, NEW c \in Connections, SelectTask(t, c) PROVE OnceInv'
    <2>1. UNCHANGED <<stamp, at, eventsRead, overlapped, cursor, wire>>
        BY <1>11 DEF SelectTask
    <2>2. conn'[c] = "connecting"
          /\ \A d \in Connections \ {c} : conn'[d] \in {"open", "closing"} => conn[d] \in {"open", "closing"}
        BY <1>11 DEF SelectTask, TypeOK
    <2>3. OnePoll'
        BY <2>1 DEF OnceInv, OnePoll
    <2>4. SentOnce'
        BY <2>1, <2>2, WireSame DEF OnceInv, SentOnce, Up, Distinct
    <2>5. LoggedOnce'
        BY <1>11 DEF SelectTask, LoggedOnce
    <2> QED
        BY <2>3, <2>4, <2>5 DEF OnceInv
<1>12. CASE UNCHANGED vars
    <2>1. SentOnce' /\ LoggedOnce'
        BY <1>12, SentAndLoggedKept DEF vars, Up
    <2>2. OnePoll'
        BY <1>12 DEF vars, OnceInv, OnePoll
    <2> QED
        BY <2>1, <2>2 DEF OnceInv
<1> QED
    BY <1>1, <1>2, <1>3, <1>4, <1>5, <1>6, <1>7, <1>8, <1>9, <1>10, <1>11, <1>12
    DEF Next, PollStep

\* An event is shown twice only after polls of the connection overlapped, or when the task
\* was selected before.
THEOREM OverlapAloneRepeats == Spec => []ShownOnce
<1>1. Init => OnceInv
    BY NothingSent DEF Init, OnceInv, OnePoll, SentOnce, LoggedOnce, Distinct, UnderWay, Up
<1>2. TypeOK /\ IInv /\ OnceInv => ShownOnce
    <2> SUFFICES ASSUME TypeOK, IInv, OnceInv, NEW e \in Events, log[e] > 1, current \notin overlapped,
                        \A c \in Connections \ {current} : target[c] # selected
                 PROVE  FALSE
        BY DEF ShownOnce
    <2>1. Single /\ log[e] \in Nat
        BY DEF Single, TypeOK
    <2> QED
        BY <2>1 DEF OnceInv, LoggedOnce
<1> QED
    BY <1>1, <1>2, StepOnce, IInvHolds, TypeCorrect, PTL DEF Spec

-----------------------------------------------------------------------------
(* In which order events are shown                                         *)

\* The panel has a task when it has a connection, which it does not close while it has it.
CurrentInv ==
    /\ current = 0 => selected = NoTask
    /\ current # 0 => selected \in Tasks /\ conn[current] \notin {"unused", "closing"}

\* No message of an earlier connection may be taken for one of the current connection's.
FirstTime ==
    current # 0 /\ \A c \in Connections \ {current} : conn[c] # "unused" => target[c] # selected

UpTo(e) == {f \in visible \ late : TaskOf[f] = TaskOf[e] /\ stamp[f] <= stamp[e]}

\* What comes before an event is shown before it, or comes with it or in a message before it.
InOrder ==
    FirstTime =>
        /\ \A e \in Events : log[e] > 0 => \A f \in UpTo(e) : log[f] > 0
        /\ \A i \in 1..Len(wire[current]) : \A e \in wire[current][i] : \A f \in UpTo(e) :
              log[f] > 0 \/ \E j \in 1..i : f \in wire[current][j]

OrderInv == CurrentInv /\ InOrder

LEMMA InitOrder == Init => OrderInv
BY DEF Init, OrderInv, CurrentInv, InOrder, FirstTime

\* Steps that send and show nothing.
LEMMA InOrderKept ==
    ASSUME TypeOK, IInv, InOrder,
           UNCHANGED <<target, selected, current, log>>,
           current # 0 => wire'[current] \in {wire[current], <<>>},
           \A c \in Connections : conn'[c] = "unused" <=> conn[c] = "unused",
           \A e \in visible : UpTo(e)' \subseteq UpTo(e)
    PROVE  InOrder'
<1> SUFFICES ASSUME FirstTime' PROVE InOrder'
    BY DEF InOrder
<1>1. FirstTime /\ current \in Connections
    BY DEF FirstTime, TypeOK
<1>2. \A e \in Events : log[e] > 0 => e \in visible
    BY DEF IInv, Shown
<1>3. \A i \in 1..Len(wire[current]) : \A e \in wire[current][i] : e \in visible
    BY <1>1 DEF IInv, Known, UnderWay, EventsIn
<1>4. CASE wire'[current] = wire[current]
    BY <1>1, <1>2, <1>3, <1>4 DEF InOrder
<1>5. CASE wire'[current] = <<>>
    BY <1>1, <1>2, <1>5 DEF InOrder
<1> QED
    BY <1>1, <1>4, <1>5 DEF FirstTime

\* A message under way is extended at its end, or loses its first.
LEMMA SendOrder ==
    ASSUME TypeOK, IInv, SkipInv, OrderInv, NEW p \in Polls, AnswerPoll(p)
    PROVE  InOrder'
<1> USE PollConnection DEF sockVars, panelVars, tableVars
<1>1. UNCHANGED <<stamp, visible, late, conn, target, selected, current, log>>
    BY DEF AnswerPoll
<1>2. \A e \in Events : UpTo(e)' = UpTo(e)
    BY <1>1 DEF UpTo
<1>3. CASE p[1] # current \/ wire' = wire
    <2>1. current # 0 => wire'[current] = wire[current]
        BY <1>3 DEF AnswerPoll, TypeOK
    <2>2. QED
        BY <1>1, <1>2, <2>1, InOrderKept DEF OrderInv, TypeOK
<1>4. CASE p[1] = current /\ wire' # wire
    <2> DEFINE w == wire[current]  m == NewEvents(p)
    <2>1. /\ wire' = [wire EXCEPT ![current] = Append(w, m)]
          /\ w \in Seq(SUBSET Events) /\ m \in SUBSET Events /\ current \in Connections
        BY <1>4 DEF AnswerPoll, TypeOK, NewEvents
    <2>2. /\ wire'[current] = Append(w, m) /\ Len(w) \in Nat /\ Len(wire'[current]) = Len(w) + 1
          /\ \A i \in 1..Len(w) : wire'[current][i] = w[i]
          /\ wire'[current][Len(w) + 1] = m
        <3>1. wire'[current] = Append(w, m)
            BY <2>1 DEF TypeOK
        <3>2. QED
            BY <2>1, <3>1
    <2>3. SUFFICES ASSUME FirstTime PROVE InOrder'
        BY <1>1 DEF InOrder, FirstTime
    <2>4. ASSUME NEW e \in m, NEW f \in UpTo(e)
          PROVE  log[f] > 0 \/ \E j \in 1..Len(w) + 1 : f \in wire'[current][j]
        <3>1. e \in eventsRead[p] /\ TaskOf[e] = target[p[1]] /\ at[p] = "events"
            BY DEF NewEvents, IInv, Known, AnswerPoll
        <3>2. TaskOf[f] = selected /\ f \in visible \ late /\ stamp[f] <= stamp[e]
            BY <1>4, <2>3, <3>1 DEF UpTo, IInv, Shown, FirstTime
        <3>3. f \in eventsRead[p]
            BY <3>1, <3>2 DEF SkipInv, Closed, UpTo
        <3>4. conn[current] = "open"
            BY <1>4, <2>1, <2>3, <3>1 DEF OrderInv, CurrentInv, IInv, Quiet, TypeOK, FirstTime
        <3>5. CASE stamp[f] > cursor[current]
            <4>1. f \in m
                BY <1>4, <3>3, <3>5 DEF NewEvents, Since
            <4>2. QED
                BY <2>2, <4>1
        <3>6. CASE stamp[f] <= cursor[current]
            <4>1. log[f] > 0 \/ f \in UnderWay(current)
                BY <2>3, <3>2, <3>4, <3>6 DEF SkipInv, NothingSkipped, FirstTime
            <4>2. f \in UnderWay(current) => \E j \in 1..Len(w) : f \in w[j]
                BY DEF UnderWay, EventsIn
            <4>3. QED
                BY <2>2, <4>1, <4>2
        <3>7. QED
            BY <2>1, <3>2, <3>5, <3>6 DEF TypeOK
    <2>5. ASSUME NEW i \in 1..Len(wire'[current]), NEW e \in wire'[current][i], NEW f \in UpTo(e)
          PROVE  log[f] > 0 \/ \E j \in 1..i : f \in wire'[current][j]
        <3>1. CASE i = Len(w) + 1
            BY <2>2, <2>4, <3>1
        <3>2. CASE i # Len(w) + 1
            <4>1. i \in 1..Len(w) /\ e \in w[i]
                BY <2>2, <3>2
            <4>2. log[f] > 0 \/ \E j \in 1..i : f \in w[j]
                BY <2>3, <4>1 DEF OrderInv, InOrder
            <4>3. QED
                BY <2>2, <4>1, <4>2
        <3>3. QED
            BY <3>1, <3>2
    <2>6. \A e \in Events : log[e] > 0 => \A f \in UpTo(e) : log[f] > 0
        BY <2>3 DEF OrderInv, InOrder
    <2>7. \A i \in 1..Len(wire'[current]) : \A e \in wire'[current][i] : e \in Events
        BY <2>1, <2>2
    <2>8. QED
        BY <1>1, <1>2, <2>5, <2>6, <2>7 DEF InOrder
<1>5. QED
    BY <1>3, <1>4

LEMMA ReceiveOrder ==
    ASSUME TypeOK, IInv, OrderInv, NEW c \in Connections, Receive(c)
    PROVE  InOrder'
<1> USE DEF tableVars, sockVars
<1>1. UNCHANGED <<stamp, visible, late, conn, target, selected, current>>
    BY DEF Receive
<1>2. \A e \in Events : UpTo(e)' = UpTo(e)
    BY <1>1 DEF UpTo
<1>3. SUFFICES ASSUME FirstTime PROVE InOrder'
    BY <1>1 DEF InOrder, FirstTime
<1>4. /\ current \in Connections /\ target[current] = selected
      /\ conn[c] # "unused" /\ \A d \in Connections \ {c} : wire'[d] = wire[d]
    BY <1>3 DEF FirstTime, TypeOK, IInv, Shown, Quiet, Receive
<1>5. CASE c # current
    <2>1. target[c] # selected
        BY <1>3, <1>4, <1>5 DEF FirstTime
    <2>2. UNCHANGED log /\ wire'[current] = wire[current]
        BY <1>4, <1>5, <2>1 DEF Receive, StillSelected
    <2>3. \A e \in visible : e \in Events
        BY DEF TypeOK
    <2>4. QED
        BY <1>1, <1>2, <2>2, <2>3, InOrderKept DEF OrderInv
<1>6. CASE c = current
    <2> DEFINE w == wire[c]
    <2>1. /\ w \in Seq(SUBSET Events) /\ w # <<>> /\ wire'[current] = Tail(w)
        BY <1>6 DEF TypeOK, Receive
    <2>2. /\ Len(w) \in Nat \ {0} /\ Head(w) = w[1] /\ Len(Tail(w)) = Len(w) - 1
          /\ \A i \in 1..Len(w) - 1 : Tail(w)[i] = w[i + 1]
          /\ \A i \in 1..Len(w) : w[i] \in SUBSET Events
        BY <2>1
    <2>3. log' = [e \in Events |-> IF e \in w[1] THEN log[e] + 1 ELSE log[e]]
        BY <1>4, <1>6, <2>2 DEF Receive, StillSelected
    <2>4. \A e \in Events : log'[e] > 0 <=> log[e] > 0 \/ e \in w[1]
        BY <2>3 DEF TypeOK
    <2>5. \A e \in Events : UpTo(e) \subseteq Events
        BY DEF UpTo, TypeOK
    <2>6. /\ \A e \in Events : log[e] > 0 => \A f \in UpTo(e) : log[f] > 0
          /\ \A i \in 1..Len(w) : \A e \in w[i] : \A f \in UpTo(e) :
                log[f] > 0 \/ \E j \in 1..i : f \in w[j]
        BY <1>3, <1>6 DEF OrderInv, InOrder
    <2>7. ASSUME NEW e \in Events, log'[e] > 0, NEW f \in UpTo(e) PROVE log'[f] > 0
        <3>1. CASE log[e] > 0
            BY <2>4, <2>5, <2>6, <3>1
        <3>2. CASE e \in w[1]
            <4>1. 1 \in 1..Len(w)
                BY <2>2
            <4>2. log[f] > 0 \/ \E j \in 1..1 : f \in w[j]
                BY <2>6, <3>2, <4>1
            <4>3. QED
                BY <2>4, <2>5, <4>2
        <3>3. QED
            BY <2>4, <2>7, <3>1, <3>2
    <2>8. ASSUME NEW i \in 1..Len(w) - 1, NEW e \in w[i + 1], NEW f \in UpTo(e)
          PROVE  log'[f] > 0 \/ \E j \in 1..i : f \in w[j + 1]
        <3>1. i + 1 \in 1..Len(w) /\ e \in Events
            BY <2>2
        <3>2. log[f] > 0 \/ \E j \in 1..i + 1 : f \in w[j]
            BY <2>6, <3>1
        <3>3. CASE log[f] > 0 \/ f \in w[1]
            BY <2>4, <2>5, <3>1, <3>3
        <3>4. CASE \E j \in 1..i + 1 : f \in w[j] /\ j # 1
            <4>1. PICK j \in 1..i + 1 : f \in w[j] /\ j # 1
                BY <3>4
            <4>2. j - 1 \in 1..i /\ f \in w[(j - 1) + 1]
                BY <2>2, <4>1
            <4>3. QED
                BY <4>2
        <3>5. QED
            BY <3>2, <3>3, <3>4
    <2>9. ASSUME NEW i \in 1..Len(wire'[current]), NEW e \in wire'[current][i], NEW f \in UpTo(e)
          PROVE  log'[f] > 0 \/ \E j \in 1..i : f \in wire'[current][j]
        <3>1. i \in 1..Len(w) - 1 /\ e \in w[i + 1]
            BY <2>1, <2>2
        <3>2. \A j \in 1..i : wire'[current][j] = w[j + 1]
            BY <2>1, <2>2, <3>1
        <3>3. QED
            BY <2>8, <3>1, <3>2
    <2>10. \A i \in 1..Len(wire'[current]) : \A e \in wire'[current][i] : e \in Events
        BY <2>1, <2>2
    <2>11. QED
        BY <1>1, <1>2, <2>7, <2>9, <2>10 DEF InOrder
<1>7. QED
    BY <1>5, <1>6

LEMMA StepOrder == TypeOK /\ IInv /\ SkipInv /\ OrderInv /\ [Next]_vars => OrderInv'
<1> SUFFICES ASSUME TypeOK, IInv, SkipInv, OrderInv, [Next]_vars PROVE OrderInv'
    OBVIOUS
<1> USE StreamAssumption, PollConnection DEF tableVars, pollVars, sockVars, panelVars, OrderInv
<1>1. ASSUME NEW e \in Events, InsertEvent(e) PROVE OrderInv'
    <2>1. \A f \in visible : stamp'[f] = stamp[f]
        BY <1>1 DEF InsertEvent, IInv, Known, TypeOK
    <2>2. \A f \in visible : UpTo(f)' \subseteq UpTo(f)
        BY <1>1, <2>1 DEF InsertEvent, UpTo
    <2> QED
        BY <1>1, <2>2, InOrderKept DEF InsertEvent, CurrentInv
<1>2. ASSUME NEW e \in Events, CommitEvent(e) PROVE OrderInv'
    <2>1. /\ visible' = visible \cup {e} /\ late \subseteq late' /\ UNCHANGED stamp
          /\ \A f \in visible : TaskOf[f] = TaskOf[e] /\ stamp[f] >= stamp[e] => e \in late'
        BY <1>2 DEF CommitEvent
    <2>2. \A f \in visible : stamp[f] \in Nat /\ stamp[e] \in Nat
        BY DEF TypeOK
    <2>3. \A f \in visible : UpTo(f)' \subseteq UpTo(f)
        BY <2>1, <2>2 DEF UpTo
    <2> QED
        BY <1>2, <2>3, InOrderKept DEF CommitEvent, CurrentInv
<1>3. ASSUME NEW p \in Polls, StartPoll(p) \/ ReadEvents(p) \/ FailPoll(p) PROVE OrderInv'
    <2>1. UNCHANGED <<stamp, visible, late, conn, target, wire, selected, current, log>>
        BY <1>3 DEF StartPoll, ReadEvents, FailPoll
    <2> QED
        BY <2>1, InOrderKept DEF CurrentInv, UpTo
<1>4. ASSUME NEW p \in Polls, AnswerPoll(p) PROVE OrderInv'
    BY <1>4, SendOrder DEF AnswerPoll, CurrentInv
<1>5. ASSUME NEW c \in Connections, Accept(c) \/ NoticeClose(c) \/ LoseConnection(c)
      PROVE  OrderInv'
    <2>1. UNCHANGED <<stamp, visible, late, target, selected, current, log>>
        BY <1>5 DEF Accept, NoticeClose, LoseConnection
    <2>2. \A d \in Connections : /\ conn'[d] = "unused" <=> conn[d] = "unused"
                                 /\ conn'[d] = "closing" => conn[d] = "closing"
        BY <1>5 DEF Accept, NoticeClose, LoseConnection, ClosePolls, TypeOK
    <2>3. \A d \in Connections : wire'[d] \in {wire[d], <<>>}
        BY <1>5 DEF Accept, NoticeClose, LoseConnection, TypeOK
    <2>4. current # 0 => current \in Connections
        BY DEF TypeOK
    <2>5. CurrentInv'
        BY <2>1, <2>2, <2>4 DEF CurrentInv
    <2>6. InOrder'
        <3>1. \A e \in visible : UpTo(e)' \subseteq UpTo(e)
            BY <2>1 DEF UpTo
        <3>2. current # 0 => wire'[current] \in {wire[current], <<>>}
            BY <2>3, <2>4
        <3>3. InOrder
            OBVIOUS
        <3> HIDE DEF OrderInv
        <3> QED
            BY <2>1, <2>2, <3>1, <3>2, <3>3, InOrderKept
    <2> QED
        BY <2>5, <2>6
<1>6. ASSUME NEW c \in Connections, Receive(c) PROVE OrderInv'
    BY <1>6, ReceiveOrder DEF Receive, CurrentInv
<1>7. ASSUME NEW t \in Tasks, NEW c \in Connections, SelectTask(t, c) PROVE OrderInv'
    <2>1. /\ current' = c /\ selected' = t /\ conn'[c] = "connecting" /\ wire'[c] = <<>>
          /\ \A e \in Events : log'[e] = 0
        BY <1>7 DEF SelectTask, TypeOK, IInv, Quiet
    <2> QED
        BY <2>1 DEF CurrentInv, InOrder
<1>8. CASE UNCHANGED vars
    <2>1. UNCHANGED <<stamp, visible, late, conn, target, wire, selected, current, log>>
        BY <1>8 DEF vars
    <2> QED
        BY <2>1, InOrderKept DEF CurrentInv, UpTo
<1> QED
    BY <1>1, <1>2, <1>3, <1>4, <1>5, <1>6, <1>7, <1>8 DEF Next, PollStep

-----------------------------------------------------------------------------
(* TaskStream implements EventLog                                          *)

Time    == [e \in Events |-> IF e \in visible THEN stamp[e] ELSE 0]
Earlier == {target[c] : c \in {d \in Connections \ {current} : conn[d] # "unused"}}
Logged  == {e \in Events : log[e] > 0}

\* Steps that commit, select and show nothing.
LEMMA LogStutter ==
    ASSUME IInv, UNCHANGED <<visible, late, target, selected, current>>, Logged' = Logged,
           \A e \in visible : stamp'[e] = stamp[e],
           \A c \in Connections : conn'[c] = "unused" <=> conn[c] = "unused"
    PROVE  UNCHANGED L!vars
<1>1. Time' = Time
    BY DEF Time
<1>2. Earlier' = Earlier
    BY DEF Earlier
<1> QED
    BY <1>1, <1>2 DEF L!vars, Time, Earlier, Logged

LEMMA CommitRefines ==
    ASSUME TypeOK, IInv, NEW e \in Events, CommitEvent(e), NEW now, now = stamp[e]
    PROVE  L!Commit(e, now) /\ now \in 1..MaxTime
<1> USE DEF tableVars, sockVars, panelVars
<1>1. /\ visible' = visible \cup {e} /\ e \notin visible /\ stamp[e] > 0 /\ stamp[e] \in 1..MaxTime
      /\ UNCHANGED <<stamp, target, conn, selected, current, log>>
    BY DEF CommitEvent, TypeOK
<1>2. Time[e] = 0 /\ Time' = [Time EXCEPT ![e] = stamp[e]]
    BY <1>1 DEF Time
<1>3. L!EventsOf(TaskOf[e]) = {f \in visible : TaskOf[f] = TaskOf[e]}
    BY DEF L!EventsOf, IInv, Known, TypeOK
<1>4. \A f \in visible : Time[f] = stamp[f]
    BY DEF Time, TypeOK
<1>5. late' = late \cup {x \in {e} : \E f \in L!EventsOf(TaskOf[e]) : Time[f] >= stamp[e]}
    BY <1>3, <1>4 DEF CommitEvent
<1>6. Earlier' = Earlier /\ Logged' = Logged
    BY <1>1 DEF Earlier, Logged
<1> QED
    BY <1>1, <1>2, <1>5, <1>6 DEF L!Commit, Time, Earlier, Logged

LEMMA SelectRefines ==
    ASSUME TypeOK, IInv, OrderInv, NEW t \in Tasks, NEW c \in Connections, SelectTask(t, c)
    PROVE  L!Select(t)
<1> USE DEF tableVars, pollVars
<1>1. /\ selected' = t /\ current' = c /\ UNCHANGED <<stamp, visible, late>> /\ log' = [e \in Events |-> 0]
      /\ conn[c] = "unused"
      /\ \A d \in Connections \ {c} : /\ target'[d] = target[d]
                                      /\ conn'[d] = "unused" <=> conn[d] = "unused"
    BY DEF SelectTask, TypeOK
<1>2. Time' = Time /\ Logged' = {}
    BY <1>1 DEF Time, Logged
<1>3. CASE current = 0
    <2>1. Earlier = {} /\ Earlier' = {} /\ selected = NoTask
        BY <1>1, <1>3 DEF Earlier, IInv, Shown, OrderInv, CurrentInv
    <2> QED
        BY <1>1, <1>2, <2>1 DEF L!Select, Time, Earlier, Logged
<1>4. CASE current # 0
    <2>1. /\ current \in Connections \ {c} /\ conn[current] # "unused"
          /\ target[current] = selected /\ selected # NoTask
        BY <1>1, <1>4, StreamAssumption DEF TypeOK, IInv, Shown, OrderInv, CurrentInv
    <2>2. Earlier' = Earlier \cup {selected}
        <3>1. \A d \in Connections : d # current' /\ conn'[d] # "unused"
                 <=> d = current \/ (d # current /\ conn[d] # "unused")
            BY <1>1, <2>1
        <3>2. ASSUME NEW x \in Earlier' PROVE x \in Earlier \cup {selected}
            BY <1>1, <2>1, <3>1, <3>2 DEF Earlier
        <3>3. ASSUME NEW x \in Earlier \cup {selected} PROVE x \in Earlier'
            <4>1. PICK d \in Connections : x = target[d] /\ (d = current \/ conn[d] # "unused")
                BY <2>1, <3>3 DEF Earlier
            <4>2. d # current' /\ conn'[d] # "unused" /\ x = target'[d]
                BY <1>1, <2>1, <3>1, <4>1
            <4> QED
                BY <4>2 DEF Earlier
        <3> QED
            BY <3>2, <3>3
    <2> QED
        BY <1>1, <1>2, <2>1, <2>2 DEF L!Select, Time, Earlier, Logged
<1> QED
    BY <1>3, <1>4

LEMMA ShowRefines ==
    ASSUME TypeOK, IInv, OrderInv, OrderInv', NEW c \in Connections, Receive(c)
    PROVE  [L!Next]_(L!vars)
<1> USE DEF tableVars, sockVars, pollVars
<1>1. UNCHANGED <<stamp, visible, late, conn, target, selected, current>>
    BY DEF Receive
<1>2. Time' = Time /\ Earlier' = Earlier
    BY <1>1 DEF Time, Earlier
<1>3. CASE target[c] # selected
    <2>1. Logged' = Logged
        BY <1>3 DEF Receive, StillSelected, Logged
    <2> QED
        BY <1>1, <2>1, LogStutter
<1>4. CASE target[c] = selected
    <2>0. PICK S : S = Head(wire[c])
        OBVIOUS
    <2>1. S \subseteq Events /\ S \subseteq UnderWay(c)
        BY <2>0, ReceiveWire
    <2>2. Logged' = Logged \cup S
        BY <1>4, <2>0, <2>1 DEF Receive, StillSelected, Logged, TypeOK
    <2>3. \A e \in S : e \in visible /\ TaskOf[e] = selected
        BY <1>4, <2>1 DEF IInv, Known
    <2>4. \A e \in Events : Time[e] > 0 <=> e \in visible
        BY DEF Time, IInv, Known
    <2>5. S \in SUBSET L!EventsOf(selected)
        BY <2>1, <2>3, <2>4 DEF L!EventsOf, Time
    <2>6. L!NoGap(Logged') \/ selected \in Earlier
        <3>1. CASE FirstTime
            <4>1. \A e \in Events : log'[e] > 0 => \A f \in UpTo(e) : log'[f] > 0
                BY <1>1, <3>1 DEF OrderInv, InOrder, FirstTime, UpTo
            <4>2. \A e \in Logged' : e \in visible /\ e \in Events
                BY <2>1, <2>2, <2>3 DEF Logged, IInv, Shown
            <4>3. \A e \in visible : Time[e] = stamp[e]
                BY DEF Time, TypeOK
            <4>4. ASSUME NEW e \in Logged', NEW f \in L!EventsOf(TaskOf[e]) \ late, Time[f] <= Time[e]
                  PROVE  f \in Logged'
                <5>1. f \in Events /\ f \in visible /\ TaskOf[f] = TaskOf[e]
                    BY <2>4, <4>4 DEF L!EventsOf, Time
                <5>2. f \in UpTo(e)
                    BY <4>2, <4>3, <4>4, <5>1 DEF UpTo
                <5> QED
                    BY <4>1, <4>2, <4>4, <5>1, <5>2 DEF Logged
            <4> QED
                BY <4>4 DEF L!NoGap, Time
        <3>2. CASE ~FirstTime
            <4>1. conn[c] # "unused"
                BY DEF Receive, IInv, Quiet
            <4>2. current # 0
                BY <4>1 DEF IInv, Shown
            <4>3. PICK d \in Connections \ {current} : conn[d] # "unused" /\ target[d] = selected
                BY <3>2, <4>2 DEF FirstTime
            <4> QED
                BY <4>3 DEF Earlier
        <3> QED
            BY <3>1, <3>2
    <2>7. L!Show(S)
        BY <1>1, <1>2, <2>2, <2>6 DEF L!Show, Time, Earlier, Logged
    <2> QED
        BY <2>5, <2>7 DEF L!Next
<1> QED
    BY <1>3, <1>4

\* The panel's log is an EventLog, for any tasks, events, connections, polls and bounds: it
\* never has an event of another task, loses none while its task is selected, and has no gap.
THEOREM LogRefinement == Spec => ImplementsEventLog
<1>1. Init => L!Init
    BY StreamAssumption DEF Init, L!Init
<1>2. TypeOK /\ IInv /\ OrderInv /\ OrderInv' /\ [Next]_vars => [L!Next]_(L!vars)
    <2> SUFFICES ASSUME TypeOK, IInv, OrderInv, OrderInv', [Next]_vars PROVE [L!Next]_(L!vars)
        OBVIOUS
    <2> USE DEF tableVars, pollVars, sockVars, panelVars
    <2>1. ASSUME NEW e \in Events, InsertEvent(e) PROVE [L!Next]_(L!vars)
        <3>1. \A f \in visible : stamp'[f] = stamp[f]
            BY <2>1 DEF InsertEvent, IInv, Known, TypeOK
        <3> QED
            BY <2>1, <3>1, LogStutter DEF InsertEvent, Logged
    <2>2. ASSUME NEW e \in Events, CommitEvent(e) PROVE [L!Next]_(L!vars)
        <3>1. PICK now : now = stamp[e]
            OBVIOUS
        <3>2. L!Commit(e, now) /\ now \in 1..MaxTime
            BY <2>2, <3>1, CommitRefines
        <3> QED
            BY <3>2 DEF L!Next
    <2>3. CASE \/ \E p \in Polls : StartPoll(p) \/ PollStep(p) \/ FailPoll(p)
               \/ UNCHANGED vars
        <3>1. UNCHANGED <<stamp, visible, late, conn, target, selected, current, log>>
            BY <2>3 DEF PollStep, StartPoll, ReadEvents, AnswerPoll, FailPoll, vars
        <3> QED
            BY <3>1, LogStutter DEF Logged
    <2>4. ASSUME NEW c \in Connections, Accept(c) \/ NoticeClose(c) \/ LoseConnection(c)
          PROVE  [L!Next]_(L!vars)
        <3>1. UNCHANGED <<stamp, visible, late, target, selected, current, log>>
            BY <2>4 DEF Accept, NoticeClose, LoseConnection
        <3>2. \A d \in Connections : conn'[d] = "unused" <=> conn[d] = "unused"
            BY <2>4 DEF Accept, NoticeClose, LoseConnection, ClosePolls, TypeOK
        <3> QED
            BY <3>1, <3>2, LogStutter DEF Logged
    <2>5. ASSUME NEW c \in Connections, Receive(c) PROVE [L!Next]_(L!vars)
        BY <2>5, ShowRefines
    <2>6. ASSUME NEW t \in Tasks, NEW c \in Connections, SelectTask(t, c) PROVE [L!Next]_(L!vars)
        BY <2>6, SelectRefines DEF L!Next
    <2> QED
        BY <2>1, <2>2, <2>3, <2>4, <2>5, <2>6 DEF Next
<1>3. Spec => [](TypeOK /\ IInv /\ SkipInv)
    BY TypeCorrect, IInvHolds, SkipHolds, PTL
<1>4. Spec => []OrderInv
    BY <1>3, InitOrder, StepOrder, PTL DEF Spec
<1> QED
    BY <1>1, <1>2, <1>3, <1>4, PTL DEF Spec, ImplementsEventLog, L!Spec
=============================================================================
