---------------------------- MODULE PanelProofs ----------------------------
(***************************************************************************)
(* Proofs about Panel, for any lines, tasks, approvals and faults.         *)
(*                                                                         *)
(* The panel's chat is Chat's: each step of the panel is one of Chat's or  *)
(* leaves the chat alone.  Its dashboard is never ahead of the API, and an *)
(* answer or a message that is not stale is never behind the dashboard.    *)
(***************************************************************************)
EXTENDS Panel, ChatProofs

LEMMA PanelStepIsChatStep == [Next]_vars => [ChatNext]_chat
<1> SUFFICES ASSUME [Next]_vars PROVE [ChatNext]_chat
  OBVIOUS
<1>1. CASE \E s \in Lines : AnswerLine(s) \/ \E c \in Commands : SubmitLine(s, c)
  BY <1>1 DEF AnswerLine, SubmitLine, ChatNext, LineStep
<1>2. CASE ChatElsewhere
  BY <1>2 DEF ChatElsewhere, ChatNext, LineStep
<1>3. CASE Load \/ Tick \/ Close \/ StreamStep \/ UNCHANGED vars
  BY <1>3 DEF Load, Tick, Close, StreamStep, SendState, ReceiveUpdate, LoseConnection, vars
<1>4. CASE \E t \in Tasks : SelectTask(t)
  BY <1>4 DEF SelectTask
<1>5. CASE \E a \in Approvals : MoveApproval(a) \/ DecideApproval(a)
  BY <1>5 DEF MoveApproval, DecideApproval
<1>6. CASE \E r \in Refreshes : RefreshStep(r)
  BY <1>6 DEF RefreshStep, ReadTasks, ReadApprovals, ApplyRefresh, RefreshFails
<1>7. QED
  BY <1>1, <1>2, <1>3, <1>4, <1>5, <1>6 DEF Next

\* Whatever is proved of Chat holds of the panel's chat.
THEOREM ImplementsChat == Spec => ChatSpec
<1>1. Init => ChatInit
  BY DEF Init
<1>2. QED
  BY <1>1, PanelStepIsChatStep, PTL DEF Spec, ChatSpec

LEMMA ChatInPanel == Spec => []ChatInv
BY ImplementsChat, ChatInvariance, PTL

-----------------------------------------------------------------------------
(* What a closed panel leaves behind, and what the webview shows           *)

QuietInv ==
    /\ panel = "closed" => /\ "ready" \in active \/ timer = "set" => "ready" \in busyAtClose
                           /\ socket = "open" \/ (\E s \in Lines : UnderWay(s)) => "chat" \in busyAtClose

LEMMA StepQuietInv == ChatTypeOK /\ QuietInv /\ [Next]_vars => QuietInv'
<1> SUFFICES ASSUME ChatTypeOK, QuietInv, [Next]_vars PROVE QuietInv'
  OBVIOUS
<1> USE DEF QuietInv, dashVars, fetchVars, socketVars, closeVars, viewVars
<1>1. CASE \E s \in Lines : AnswerLine(s)
  <2>1. PICK s \in Lines : AnswerLine(s)
    BY <1>1
  <2>2. UnderWay(s) /\ \A q \in Lines : UnderWay(q)' => UnderWay(q)
    BY <2>1 DEF AnswerLine, Answer, Ready, Outcome, UnderWay, ChatTypeOK
  <2>3. UNCHANGED <<panel, timer, busyAtClose>> /\ ("ready" \in active' => "ready" \in active)
    BY <2>1 DEF AnswerLine, StartRefresh
  <2>4. QED
    BY <2>2, <2>3
<1>2. CASE \E s \in Lines, c \in Commands : SubmitLine(s, c)
  BY <1>2 DEF SubmitLine
<1>3. CASE ChatElsewhere
  <2>1. \A q \in Lines : UnderWay(q)' <=> UnderWay(q)
    BY <1>3, MostStepsAreQuiet DEF ChatElsewhere, Quiet
  <2>2. QED
    BY <1>3, <2>1 DEF ChatElsewhere
<1>4. CASE Load \/ Tick
  BY <1>4 DEF Load, Tick, StartRefresh, Refreshes, UnderWay, chat, lineVars
<1>5. CASE Close
  <2>1. timer' # "set" /\ socket' # "open"
    BY <1>5 DEF Close, ClearedTimer, ClosedSocket
  <2>2. "ready" \in active' => "ready" \in busyAtClose'
    BY <1>5 DEF Close
  <2>3. (\E s \in Lines : UnderWay(s)') => "chat" \in busyAtClose'
    BY <1>5 DEF Close, UnderWay, chat, lineVars
  <2>4. QED
    BY <2>1, <2>2, <2>3
<1>6. CASE \/ StreamStep \/ UNCHANGED vars
           \/ \E t \in Tasks : SelectTask(t)
           \/ \E a \in Approvals : MoveApproval(a) \/ DecideApproval(a)
  <2>1. \A q \in Lines : UnderWay(q)' <=> UnderWay(q)
    BY <1>6 DEF StreamStep, SendState, ReceiveUpdate, LoseConnection, SelectTask, MoveApproval,
                DecideApproval, UnderWay, chat, lineVars, vars
  <2>2. QED
    BY <1>6, <2>1 DEF StreamStep, SendState, ReceiveUpdate, LoseConnection, SelectTask,
                MoveApproval, DecideApproval, StartRefresh, vars
<1>7. CASE \E r \in Refreshes : RefreshStep(r)
  <2>1. PICK r \in Refreshes : RefreshStep(r)
    BY <1>7
  <2>2. /\ \A q \in Lines : UnderWay(q)' <=> UnderWay(q)
        /\ UNCHANGED <<panel, socket, busyAtClose>>
        /\ active' \subseteq active
        /\ timer' # timer => "ready" \in active
    BY <2>1 DEF RefreshStep, ReadTasks, ReadApprovals, ApplyRefresh, RefreshFails, EndRefresh,
                UnderWay, chat, lineVars
  <2>3. QED
    BY <2>2
<1>8. QED
  BY <1>1, <1>2, <1>3, <1>4, <1>5, <1>6, <1>7 DEF Next

\* A closed panel leaves a timer or a connection only if its first refresh, or a line, was
\* under way when it was closed.
THEOREM ClosedIsQuiet == Spec => []ClosedPanelIsQuiet
<1>1. Init => QuietInv
  BY DEF Init, QuietInv
<1>2. QuietInv => ClosedPanelIsQuiet
  BY DEF QuietInv, ClosedPanelIsQuiet
<1>3. ChatInv => ChatTypeOK
  BY DEF ChatInv
<1>4. QED
  BY <1>1, <1>2, <1>3, StepQuietInv, ChatInPanel, PTL DEF Spec

\* The webview shows the panel's state, or it is known why not.
THEOREM BehindForAReason == Spec => []ViewIsBehindForAReason
<1>1. Init => ViewIsBehindForAReason
  BY DEF Init, ChatInit, ViewIsBehindForAReason, Blank
<1>2. ViewIsBehindForAReason /\ [Next]_vars => ViewIsBehindForAReason'
  <2> SUFFICES ASSUME ViewIsBehindForAReason, [Next]_vars PROVE ViewIsBehindForAReason'
    OBVIOUS
  <2> USE DEF ViewIsBehindForAReason, dashVars, fetchVars, socketVars, closeVars, viewVars, Render
  <2>0. ASSUME UNCHANGED <<view, messages, listed, selected, known>>
        PROVE  view = Shown(messages, listed, selected, known)
                   <=> view' = Shown(messages', listed', selected', known')
    BY <2>0 DEF Shown, Pending
  <2>1. ASSUME NEW s \in Lines, AnswerLine(s) PROVE ViewIsBehindForAReason'
    <3>1. CASE current' \notin {NoTask, target[s]}
      BY <2>1, <3>1 DEF AnswerLine, StartRefresh
    <3>2. CASE current' \in {NoTask, target[s]}
      BY <2>1, <3>2 DEF AnswerLine
    <3>3. QED
      BY <3>1, <3>2
  <2>2. ASSUME NEW s \in Lines, NEW c \in Commands, SubmitLine(s, c) PROVE ViewIsBehindForAReason'
    <3>1. CASE IsLocal(c)
      BY <2>2, <3>1 DEF SubmitLine
    <3>2. CASE ~IsLocal(c)
      BY <2>0, <2>2, <3>2 DEF SubmitLine, Submit
    <3>3. QED
      BY <3>1, <3>2
  <2>3. CASE ChatElsewhere
    <3>1. UNCHANGED messages
      BY <2>3 DEF ChatElsewhere, Advance, Serve, PollTask, RequestFails, chatVars
    <3>2. QED
      BY <2>0, <2>3, <3>1 DEF ChatElsewhere
  <2>4. CASE Load \/ Tick \/ SendState \/ LoseConnection \/ UNCHANGED vars
    <3>1. /\ UNCHANGED <<view, unseen, messages, listed, selected, known>>
          /\ active \subseteq active' /\ (panel = "closed" => panel' = "closed")
      BY <2>4 DEF Load, Tick, SendState, LoseConnection, StartRefresh, chat, chatVars, vars
    <3>2. QED
      BY <2>0, <3>1
  <2>5. CASE Close
    BY <2>5 DEF Close
  <2>6. CASE \E a \in Approvals : MoveApproval(a) \/ DecideApproval(a)
    <3>1. /\ UNCHANGED <<view, unseen, messages, listed, selected, known, panel>>
          /\ active \subseteq active'
      BY <2>6 DEF MoveApproval, DecideApproval, StartRefresh, chat, chatVars
    <3>2. QED
      BY <2>0, <3>1
  <2>7. CASE ReceiveUpdate \/ \E t \in Tasks : SelectTask(t)
    BY <2>7 DEF ReceiveUpdate, SelectTask
  <2>8. ASSUME NEW r \in Refreshes, RefreshStep(r) PROVE ViewIsBehindForAReason'
    <3>1. CASE ReadTasks(r) \/ ReadApprovals(r)
      <4>1. UNCHANGED <<view, unseen, messages, listed, selected, known, panel, active>>
        BY <3>1 DEF ReadTasks, ReadApprovals, chat, chatVars
      <4>2. QED
        BY <2>0, <4>1
    <3>2. CASE ApplyRefresh(r)
      <4>1. CASE r = "timer"
        BY <3>2, <4>1 DEF ApplyRefresh, Renders
      <4>2. CASE r # "timer"
        BY <3>2, <4>2 DEF ApplyRefresh, Renders
      <4>3. QED
        BY <4>1, <4>2
    <3>3. CASE RefreshFails(r)
      BY <3>3 DEF RefreshFails
    <3>4. QED
      BY <2>8, <3>1, <3>2, <3>3 DEF RefreshStep
  <2>9. QED
    BY <2>1, <2>2, <2>3, <2>4, <2>5, <2>6, <2>7, <2>8 DEF Next, StreamStep
<1>3. QED
  BY <1>1, <1>2, PTL DEF Spec

-----------------------------------------------------------------------------
(* The dashboard                                                           *)

\* The parts of TypeOK that are not Chat's, and that a connection is to a task.
PanelTypes ==
    /\ approval \in [Approvals -> 0..2] /\ known \in [Approvals -> 0..2]
    /\ listed \in [Tasks -> 0..FinalState] /\ selected \in Tasks \cup {NoTask}
    /\ breaks \in 0..MaxFaults /\ active \subseteq Refreshes
    /\ tasksRead \in [Refreshes -> SUBSET [Tasks -> 0..FinalState]]
    /\ approvalsRead \in [Refreshes -> SUBSET [Approvals -> 0..2]]
    /\ socket \in {"none", "open", "closed"} /\ wire \in 0..FinalState
    /\ panel \in {"loading", "open", "closed"} /\ timer \in {"unset", "set", "cleared"}
    /\ unseen \in BOOLEAN /\ busyAtClose \subseteq {"ready", "chat"}
    /\ socket = "open" => selected \in Tasks
    /\ wire > 0 => socket = "open"

ViewType ==
    view \in [messages : SUBSET Lines, listed : [Tasks -> 0..FinalState],
              selected : Tasks \cup {NoTask}, pending : SUBSET Approvals]

LEMMA ShownIsAView ==
  ASSUME NEW m \in SUBSET Lines, NEW l \in [Tasks -> 0..FinalState],
         NEW s \in Tasks \cup {NoTask}, NEW k
  PROVE  Shown(m, l, s, k) \in [messages : SUBSET Lines, listed : [Tasks -> 0..FinalState],
                                selected : Tasks \cup {NoTask}, pending : SUBSET Approvals]
BY DEF Shown, Pending

LEMMA BlankIsAView ==
  Blank \in [messages : SUBSET Lines, listed : [Tasks -> 0..FinalState],
             selected : Tasks \cup {NoTask}, pending : SUBSET Approvals]
<1>1. {} \in SUBSET Lines /\ NoTasks \in [Tasks -> 0..FinalState] /\ NoTask \in Tasks \cup {NoTask}
  BY ChatAssumption DEF NoTasks
<1>2. QED
  BY <1>1, ShownIsAView DEF Blank

\* Every step leaves the view, blanks it, or makes it what the panel holds.
LEMMA StepView ==
  [Next]_vars => \/ view' = view
                 \/ view' = Blank
                 \/ view' = Shown(messages', listed', selected', known')
<1> USE DEF viewVars, Render
<1>1. CASE \E s \in Lines : AnswerLine(s)
  BY <1>1 DEF AnswerLine
<1>2. CASE \E s \in Lines, c \in Commands : SubmitLine(s, c)
  BY <1>2 DEF SubmitLine
<1>3. CASE \/ ChatElsewhere \/ Load \/ Tick \/ Close \/ StreamStep \/ UNCHANGED vars
           \/ \E t \in Tasks : SelectTask(t)
           \/ \E a \in Approvals : MoveApproval(a) \/ DecideApproval(a)
  BY <1>3 DEF ChatElsewhere, Load, Tick, Close, StreamStep, SendState, ReceiveUpdate,
              LoseConnection, SelectTask, MoveApproval, DecideApproval, vars
<1>4. CASE \E r \in Refreshes : RefreshStep(r)
  BY <1>4 DEF RefreshStep, ReadTasks, ReadApprovals, ApplyRefresh, RefreshFails
<1>5. QED
  BY <1>1, <1>2, <1>3, <1>4 DEF Next

\* What is known of a refresh: its answers are no newer than the API, and, unless it is
\* stale, no older than the dashboard.
AnswersInv(r) ==
    /\ r \notin active => tasksRead[r] = {} /\ approvalsRead[r] = {}
    /\ \A l \in tasksRead[r], t \in Tasks :
          l[t] <= taskState[t] /\ (r \notin stale => listed[t] <= l[t])
    /\ \A k \in approvalsRead[r], a \in Approvals :
          k[a] <= approval[a] /\ (r \notin stale => known[a] <= k[a])

\* The same of the message under way.
WireInv ==
    wire > 0 => /\ wire <= taskState[selected]
                /\ "stream" \notin stale => listed[selected] <= wire

DashboardInv ==
    /\ PanelTypes
    /\ \A t \in Tasks : listed[t] <= taskState[t]
    /\ \A a \in Approvals : known[a] <= approval[a]
    /\ stale \subseteq active \cup {"stream"}
    /\ \A r \in Refreshes : AnswersInv(r)
    /\ WireInv

LEMMA InitDashboardInv == Init => DashboardInv
<1> SUFFICES ASSUME Init PROVE DashboardInv
  OBVIOUS
<1> USE ChatAssumption DEF Init, ChatInit, NoTasks, NoApprovals
<1>1. PanelTypes
  <2>1. /\ approval \in [Approvals -> 0..2] /\ known \in [Approvals -> 0..2]
        /\ listed \in [Tasks -> 0..FinalState] /\ wire \in 0..FinalState /\ breaks \in 0..MaxFaults
        /\ ~(wire > 0)
    OBVIOUS
  <2>2. /\ tasksRead \in [Refreshes -> SUBSET [Tasks -> 0..FinalState]]
        /\ approvalsRead \in [Refreshes -> SUBSET [Approvals -> 0..2]]
        /\ active \subseteq Refreshes
    OBVIOUS
  <2>3. QED
    BY <2>1, <2>2 DEF PanelTypes
<1>2. (\A r \in Refreshes : AnswersInv(r)) /\ WireInv
  BY DEF AnswersInv, WireInv
<1>3. /\ \A t \in Tasks : listed[t] <= taskState[t]
      /\ \A a \in Approvals : known[a] <= approval[a]
      /\ stale \subseteq active \cup {"stream"}
  OBVIOUS
<1>4. QED
  BY <1>1, <1>2, <1>3 DEF DashboardInv

\* A step that only lets the tasks and approvals of the API go on.
LEMMA ApiStepKeeps ==
  ASSUME DashboardInv, ChatTypeOK, ChatTypeOK', PanelTypes',
         \A t \in Tasks : taskState[t] <= taskState'[t],
         \A a \in Approvals : approval[a] <= approval'[a],
         UNCHANGED <<dashVars, tasksRead, approvalsRead, wire>>,
         active \subseteq active'
  PROVE  DashboardInv'
<1> USE DEF DashboardInv, PanelTypes, ChatTypeOK, dashVars
<1>1. \A r \in Refreshes : AnswersInv(r)'
  BY ChatAssumption DEF AnswersInv
<1>2. WireInv'
  BY ChatAssumption DEF WireInv
<1>3. /\ \A t \in Tasks : listed'[t] <= taskState'[t]
      /\ \A a \in Approvals : known'[a] <= approval'[a]
  BY ChatAssumption
<1>4. QED
  BY <1>1, <1>2, <1>3

LEMMA StepPanelTypes ==
  ASSUME PanelTypes, ChatTypeOK, ChatTypeOK', [Next]_vars
  PROVE  PanelTypes'
<1> USE ChatAssumption
        DEF PanelTypes, dashVars, fetchVars, socketVars, closeVars, viewVars, Render, Refreshes
<1>1. ASSUME NEW s \in Lines, AnswerLine(s) PROVE PanelTypes'
  <2>1. current' \in Tasks \cup {NoTask}
    BY DEF ChatTypeOK
  <2>2. CASE current' \notin {NoTask, target[s]}
    <3>1. selected' \in Tasks /\ wire' = 0 /\ socket' = "open" /\ active' \subseteq Refreshes
      BY <1>1, <2>1, <2>2 DEF AnswerLine, SelectAndStreamTask, StartRefresh
    <3>2. QED
      BY <1>1, <2>2, <3>1 DEF AnswerLine, StartRefresh
  <2>3. CASE current' \in {NoTask, target[s]}
    BY <1>1, <2>3 DEF AnswerLine
  <2>4. QED
    BY <2>2, <2>3
<1>2. ASSUME NEW s \in Lines, NEW c \in Commands, SubmitLine(s, c) PROVE PanelTypes'
  BY <1>2 DEF SubmitLine
<1>3. CASE ChatElsewhere \/ UNCHANGED vars
  BY <1>3 DEF ChatElsewhere, vars
<1>4. CASE Load \/ Tick
  BY <1>4 DEF Load, Tick, StartRefresh
<1>5. CASE Close
  <2>1. /\ timer' \in {"unset", "set", "cleared"} /\ socket' \in {"none", "open", "closed"}
        /\ socket' # "open" /\ wire' = 0 /\ busyAtClose' \subseteq {"ready", "chat"}
    BY <1>5 DEF Close, ClearedTimer, ClosedSocket
  <2>2. wire' \in 0..FinalState /\ ~(wire' > 0)
    BY <2>1
  <2>3. /\ UNCHANGED <<approval, listed, known, selected, active, tasksRead, approvalsRead, breaks>>
        /\ unseen' \in BOOLEAN /\ panel' \in {"loading", "open", "closed"}
    BY <1>5 DEF Close
  <2>4. QED
    BY <2>1, <2>2, <2>3
<1>6. CASE SendState
  <2>1. selected \in Tasks /\ taskState[selected] \in 0..FinalState
    BY <1>6 DEF SendState, ChatTypeOK
  <2>2. QED
    BY <1>6, <2>1 DEF SendState
<1>7. CASE ReceiveUpdate
  <2>1. listed' \in [Tasks -> 0..FinalState]
    BY <1>7 DEF ReceiveUpdate
  <2>2. unseen' \in BOOLEAN /\ wire' = 0
    BY <1>7 DEF ReceiveUpdate
  <2>3. QED
    BY <1>7, <2>1, <2>2 DEF ReceiveUpdate
<1>8. CASE LoseConnection
  <2>1. breaks' \in 0..MaxFaults
    BY <1>8 DEF LoseConnection, Break, FaultLeft, ChatTypeOK
  <2>2. QED
    BY <1>8, <2>1 DEF LoseConnection
<1>9. ASSUME NEW t \in Tasks, SelectTask(t) PROVE PanelTypes'
  <2>1. selected' \in Tasks /\ wire' = 0 /\ socket' = "open" /\ unseen' \in BOOLEAN
    BY <1>9 DEF SelectTask, SelectAndStreamTask
  <2>2. QED
    BY <1>9, <2>1 DEF SelectTask
<1>10. ASSUME NEW a \in Approvals, MoveApproval(a) \/ DecideApproval(a) PROVE PanelTypes'
  <2>1. approval' \in [Approvals -> 0..2]
    BY <1>10 DEF MoveApproval, DecideApproval, RequestApproval, Decide, AlreadyDecided
  <2>2. active' \subseteq Refreshes
    BY <1>10 DEF MoveApproval, DecideApproval, StartRefresh
  <2>3. QED
    BY <1>10, <2>1, <2>2 DEF MoveApproval, DecideApproval, StartRefresh
<1>11. ASSUME NEW r \in Refreshes, RefreshStep(r) PROVE PanelTypes'
  <2>1. CASE ReadTasks(r)
    BY <2>1 DEF ReadTasks, ChatTypeOK
  <2>2. CASE ReadApprovals(r)
    BY <2>2 DEF ReadApprovals
  <2>3. CASE ApplyRefresh(r)
    <3>1. listed' \in [Tasks -> 0..FinalState] /\ known' \in [Approvals -> 0..2]
      BY <2>3 DEF ApplyRefresh, ApplyTaskList
    <3>2. unseen' \in BOOLEAN
      BY <2>3 DEF ApplyRefresh
    <3>3. QED
      BY <2>3, <3>1, <3>2 DEF ApplyRefresh, EndRefresh
  <2>4. CASE RefreshFails(r)
    <3>1. breaks' \in 0..MaxFaults
      BY <2>4 DEF RefreshFails, Break, FaultLeft, ChatTypeOK
    <3>2. QED
      BY <2>4, <3>1 DEF RefreshFails, EndRefresh
  <2>5. QED
    BY <1>11, <2>1, <2>2, <2>3, <2>4 DEF RefreshStep
<1>12. QED
  BY <1>1, <1>2, <1>3, <1>4, <1>5, <1>6, <1>7, <1>8, <1>9, <1>10, <1>11 DEF Next, StreamStep

\* The message under way is taken, or gone with its connection, and nothing else changes.
LEMMA WireGoneKeeps ==
  ASSUME DashboardInv, PanelTypes', wire' = 0, stale' = stale \ {"stream"},
         UNCHANGED <<taskState, approval, listed, known, tasksRead, approvalsRead>>,
         active \subseteq active'
  PROVE  DashboardInv'
<1> USE DEF DashboardInv
<1>1. \A r \in Refreshes : AnswersInv(r)'
  BY DEF AnswersInv, Refreshes
<1>2. WireInv'
  BY DEF WireInv
<1>3. QED
  BY <1>1, <1>2

LEMMA UpdateKeeps ==
  ASSUME DashboardInv, ChatTypeOK, PanelTypes', ReceiveUpdate
  PROVE  DashboardInv'
<1> USE DEF DashboardInv, ReceiveUpdate, chat, apiVars, fetchVars
<1>1. CASE listed' = listed
  BY <1>1, WireGoneKeeps
<1>2. CASE listed' # listed
  <2>1. stale' = active /\ wire' = 0 /\ UNCHANGED <<active, taskState, approval, known, tasksRead, approvalsRead>>
    <3>1. {m \in {wire'} : m > 0} = {}
      OBVIOUS
    <3>2. stale' = active' \cup {"stream" : n \in {}}
      BY <1>2, <3>1 DEF ChangeDashboard
    <3>3. QED
      BY <3>2
  <2>2. \A t \in Tasks : listed'[t] <= taskState'[t]
    <3>1. listed' = [listed EXCEPT ![selected] = wire] /\ wire <= taskState[selected]
      BY <1>2 DEF WireInv
    <3>2. QED
      BY <2>1, <3>1 DEF PanelTypes
  <2>3. \A r \in Refreshes : AnswersInv(r)'
    BY <2>1 DEF AnswersInv
  <2>4. WireInv'
    BY <2>1 DEF WireInv
  <2>5. QED
    BY <2>1, <2>2, <2>3, <2>4
<1>3. QED
  BY <1>1, <1>2

LEMMA RefreshKeeps ==
  ASSUME DashboardInv, ChatTypeOK, PanelTypes', NEW r \in Refreshes, RefreshStep(r)
  PROVE  DashboardInv'
<1> USE ChatAssumption DEF DashboardInv, PanelTypes, chat, apiVars, socketVars
<1>1. CASE ReadTasks(r)
  <2> USE <1>1 DEF ReadTasks, dashVars
  <2>1. ASSUME NEW x \in Refreshes PROVE AnswersInv(x)'
    <3>1. CASE x = r
      <4>1. tasksRead'[r] = {taskState} /\ r \in active'
        OBVIOUS
      <4>2. QED
        BY <3>1, <4>1 DEF AnswersInv, ChatTypeOK
    <3>2. CASE x # r
      BY <3>2 DEF AnswersInv
    <3>3. QED
      BY <3>1, <3>2
  <2>2. WireInv'
    BY DEF WireInv
  <2>3. QED
    BY <2>1, <2>2
<1>2. CASE ReadApprovals(r)
  <2> USE <1>2 DEF ReadApprovals, dashVars
  <2>1. ASSUME NEW x \in Refreshes PROVE AnswersInv(x)'
    <3>1. CASE x = r
      <4>1. approvalsRead'[r] = {approval} /\ r \in active'
        OBVIOUS
      <4>2. QED
        BY <3>1, <4>1 DEF AnswersInv
    <3>2. CASE x # r
      BY <3>2 DEF AnswersInv
    <3>3. QED
      BY <3>1, <3>2
  <2>2. WireInv'
    BY DEF WireInv
  <2>3. QED
    BY <2>1, <2>2
<1>3. CASE ApplyRefresh(r)
  <2> USE <1>3 DEF ApplyRefresh, EndRefresh, ApplyTaskList
  <2>1. /\ active' = active \ {r} /\ tasksRead'[r] = {} /\ approvalsRead'[r] = {}
        /\ \A x \in Refreshes \ {r} : tasksRead'[x] = tasksRead[x] /\ approvalsRead'[x] = approvalsRead[x]
        /\ UNCHANGED <<taskState, approval, selected, wire>>
    OBVIOUS
  <2>2. /\ active' \subseteq stale' /\ stale' \subseteq active' \cup {"stream"}
        /\ wire' > 0 => "stream" \in stale'
    BY DEF ChangeDashboard
  <2>3. listed' \in tasksRead[r] /\ known' \in approvalsRead[r]
    OBVIOUS
  <2>4. /\ \A t \in Tasks : listed'[t] <= taskState'[t]
        /\ \A a \in Approvals : known'[a] <= approval'[a]
    BY <2>1, <2>3 DEF AnswersInv
  <2>5. ASSUME NEW x \in Refreshes PROVE AnswersInv(x)'
    BY <2>1, <2>2 DEF AnswersInv
  <2>6. WireInv'
    BY <2>1, <2>2 DEF WireInv
  <2>7. QED
    BY <2>2, <2>4, <2>5, <2>6
<1>4. CASE RefreshFails(r)
  <2> USE <1>4 DEF RefreshFails, EndRefresh
  <2>1. ASSUME NEW x \in Refreshes PROVE AnswersInv(x)'
    BY DEF AnswersInv
  <2>2. WireInv'
    BY DEF WireInv, Refreshes
  <2>3. QED
    BY <2>1, <2>2
<1>5. QED
  BY <1>1, <1>2, <1>3, <1>4 DEF RefreshStep

LEMMA StepDashboardInv ==
  ASSUME DashboardInv, ChatInv, ChatInv', [Next]_vars
  PROVE  DashboardInv'
<1> USE DEF dashVars, fetchVars, socketVars
<1>1. ChatTypeOK /\ TasksExist /\ ChatTypeOK'
  BY DEF ChatInv
<1>2. PanelTypes'
  BY <1>1, StepPanelTypes DEF DashboardInv
<1>3. \A t \in Tasks : taskState[t] <= taskState'[t]
  BY <1>1, PanelStepIsChatStep, TasksGrow
<1>4. CASE \/ ChatElsewhere \/ Load \/ Tick \/ UNCHANGED vars
           \/ \E s \in Lines, c \in Commands : SubmitLine(s, c)
           \/ \E a \in Approvals : MoveApproval(a) \/ DecideApproval(a)
  <2>1. UNCHANGED <<dashVars, tasksRead, approvalsRead, wire>> /\ active \subseteq active'
    BY <1>4 DEF ChatElsewhere, Load, Tick, SubmitLine, MoveApproval, DecideApproval, StartRefresh, vars
  <2>2. \A a \in Approvals : approval[a] <= approval'[a]
    <3>1. \/ UNCHANGED approval
          \/ \E a \in Approvals : \/ approval[a] = 0 /\ approval' = [approval EXCEPT ![a] = 1]
                                  \/ approval[a] = 1 /\ approval' = [approval EXCEPT ![a] = 2]
      BY <1>4 DEF ChatElsewhere, Load, Tick, SubmitLine, MoveApproval, DecideApproval,
                  RequestApproval, Decide, AlreadyDecided, vars
    <3>2. approval \in [Approvals -> 0..2]
      BY DEF DashboardInv, PanelTypes
    <3>3. QED
      BY <3>1, <3>2
  <2>3. QED
    BY <1>1, <1>2, <1>3, <2>1, <2>2, ApiStepKeeps
<1>5. CASE SendState
  <2>1. /\ UNCHANGED <<taskState, approval, dashVars, fetchVars>>
        /\ wire' = taskState[selected] /\ selected \in Tasks
    BY <1>5 DEF SendState, DashboardInv, PanelTypes, chat, apiVars
  <2>2. WireInv'
    BY <1>1, <2>1, ChatAssumption DEF WireInv, DashboardInv, ChatTypeOK
  <2>3. \A r \in Refreshes : AnswersInv(r)'
    BY <2>1 DEF AnswersInv, DashboardInv
  <2>4. QED
    BY <1>2, <2>1, <2>2, <2>3 DEF DashboardInv
<1>6. ASSUME NEW s \in Lines, AnswerLine(s) PROVE DashboardInv'
  <2>1. UNCHANGED <<taskState, approval, listed, known>>
    BY <1>6 DEF AnswerLine, Answer, apiVars
  <2>2. CASE current' \notin {NoTask, target[s]}
    <3>1. /\ wire' = 0 /\ stale' = stale \ {"stream"}
          /\ UNCHANGED <<tasksRead, approvalsRead>> /\ active \subseteq active'
      BY <1>6, <2>2 DEF AnswerLine, SelectAndStreamTask, StartRefresh
    <3>2. QED
      BY <1>2, <2>1, <3>1, WireGoneKeeps
  <2>3. CASE current' \in {NoTask, target[s]}
    <3>1. UNCHANGED <<dashVars, fetchVars, wire>>
      BY <1>6, <2>1, <2>3 DEF AnswerLine
    <3>2. \A a \in Approvals : approval[a] <= approval'[a]
      BY <2>1 DEF DashboardInv, PanelTypes
    <3>3. QED
      BY <1>1, <1>2, <1>3, <3>1, <3>2, ApiStepKeeps
  <2>4. QED
    BY <2>2, <2>3
<1>7. CASE Close \/ LoseConnection \/ \E t \in Tasks : SelectTask(t)
  <2>1. /\ wire' = 0 /\ stale' = stale \ {"stream"} /\ active \subseteq active'
        /\ UNCHANGED <<taskState, approval, listed, known, tasksRead, approvalsRead>>
    BY <1>7 DEF Close, LoseConnection, SelectTask, SelectAndStreamTask, chat, apiVars
  <2>2. QED
    BY <1>2, <2>1, WireGoneKeeps
<1>8. CASE ReceiveUpdate
  BY <1>1, <1>2, <1>8, UpdateKeeps
<1>9. CASE \E r \in Refreshes : RefreshStep(r)
  BY <1>1, <1>2, <1>9, RefreshKeeps
<1>10. QED
  BY <1>4, <1>5, <1>6, <1>7, <1>8, <1>9 DEF Next, StreamStep

LEMMA DashboardInvariance == Spec => []DashboardInv
<1>1. DashboardInv /\ ChatInv /\ ChatInv' /\ [Next]_vars => DashboardInv'
  BY StepDashboardInv
<1>2. QED
  BY InitDashboardInv, <1>1, ChatInPanel, PTL DEF Spec

\* Chat and dashboard, the answers and messages under way, and the view keep to their types.
THEOREM TypeCorrect == Spec => []TypeOK
<1>1. Init => ViewType
  BY BlankIsAView DEF Init, ViewType
<1>2. ViewType /\ ChatInv' /\ DashboardInv' /\ [Next]_vars => ViewType'
  <2> SUFFICES ASSUME ViewType, ChatInv', DashboardInv', [Next]_vars PROVE ViewType'
    OBVIOUS
  <2>1. CASE view' = view
    BY <2>1 DEF ViewType
  <2>2. CASE view' = Blank
    BY <2>2, BlankIsAView DEF ViewType
  <2>3. CASE view' = Shown(messages', listed', selected', known')
    <3>1. /\ messages' \in SUBSET Lines /\ listed' \in [Tasks -> 0..FinalState]
          /\ selected' \in Tasks \cup {NoTask}
      BY DEF ChatInv, ChatTypeOK, DashboardInv, PanelTypes
    <3>2. QED
      BY <2>3, <3>1, ShownIsAView DEF ViewType
  <2>4. QED
    BY <2>1, <2>2, <2>3, StepView
<1>3. ChatInv /\ DashboardInv /\ ViewType => TypeOK
  BY DEF ChatInv, DashboardInv, PanelTypes, ViewType, TypeOK
<1>4. QED
  BY <1>1, <1>2, <1>3, ChatInPanel, DashboardInvariance, PTL DEF Spec

\* The list and the approvals go back to an earlier state only with an answer or a message
\* that was begun before their last change, in whatever order the API answers.
THEOREM GoesBackOnlyIfStale == Spec => OnlyStaleAnswersGoBack
<1> DEFINE Forward == \/ \E x \in stale : x \notin stale'
                      \/ /\ \A t \in Tasks : listed[t] <= listed'[t]
                         /\ \A a \in Approvals : known[a] <= known'[a]
<1>1. DashboardInv /\ [Next]_vars => [Forward]_vars
  <2> SUFFICES ASSUME DashboardInv, Next PROVE Forward
    OBVIOUS
  <2> USE DEF DashboardInv, PanelTypes
  <2>1. CASE UNCHANGED <<listed, known>>
    BY <2>1
  <2>2. CASE ReceiveUpdate
    <3>1. CASE "stream" \in stale
      <4>1. "stream" \notin stale'
        BY <2>2 DEF ReceiveUpdate, ChangeDashboard, fetchVars, Refreshes
      <4>2. QED
        BY <3>1, <4>1
    <3>2. CASE "stream" \notin stale
      <4>1. known' = known /\ listed' \in {listed, [listed EXCEPT ![selected] = wire]}
            /\ listed[selected] <= wire
        BY <2>2, <3>2 DEF ReceiveUpdate, WireInv
      <4>2. QED
        BY <4>1
    <3>3. QED
      BY <3>1, <3>2
  <2>3. ASSUME NEW r \in Refreshes, ApplyRefresh(r) PROVE Forward
    <3>1. CASE r \in stale
      <4>1. r \notin stale'
        BY <2>3 DEF ApplyRefresh, EndRefresh, ChangeDashboard, Refreshes
      <4>2. QED
        BY <3>1, <4>1
    <3>2. CASE r \notin stale
      <4>1. listed' \in tasksRead[r] /\ known' \in approvalsRead[r]
        BY <2>3 DEF ApplyRefresh, ApplyTaskList
      <4>2. QED
        BY <3>2, <4>1 DEF AnswersInv
    <3>3. QED
      BY <3>1, <3>2
  <2>4. CASE ~ReceiveUpdate /\ ~(\E r \in Refreshes : ApplyRefresh(r))
    <3>1. UNCHANGED <<listed, known>>
      BY <2>4 DEF Next, StreamStep, RefreshStep, Load, Tick, Close, ChatElsewhere, SendState,
                  LoseConnection, AnswerLine, SubmitLine, SelectTask, MoveApproval,
                  DecideApproval, ReadTasks, ReadApprovals, RefreshFails, dashVars
    <3>2. QED
      BY <2>1, <3>1
  <2>5. QED
    BY <2>2, <2>3, <2>4
<1>2. QED
  BY <1>1, DashboardInvariance, PTL DEF Spec, OnlyStaleAnswersGoBack
=============================================================================
