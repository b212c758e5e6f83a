------------------------- MODULE TaskPipelineProofs -------------------------
(***************************************************************************)
(* Machine-checked safety of TaskPipeline, for every set of requests and   *)
(* every bound.                                                            *)
(***************************************************************************)
EXTENDS TaskPipeline, TLAPS

-----------------------------------------------------------------------------
(* The inductive invariant, part 1: who may be running, and at which step. *)

\* Runner r runs only while the worker is in the mode that started it and its
\* job is held.
RunnerHeld(r) ==
    pc[r] # "idle" => \/ r = "boot" /\ worker = "booting"
                      \/ r \in Jobs /\ worker = "serving" /\ job[r] = "active"

\* A job not yet used up has attempts left; a decide request has a row to decide,
\* and its resume job exists only once the request has sent it.
SlotInv ==
    /\ \A r \in Runners : RunnerHeld(r)
    /\ \A j \in Jobs : job[j] \in {"none", "waiting", "active"} => attempts[j] < MaxAttempts
    /\ \A d \in Deciders : decide[d] # "answered" => job[d] = "none"
    /\ \A d \in Deciders : decide[d] # "idle" => target[d] \in 1..Len(approvals)

\* A runner at a step of a transition is making one.
StepOK(p, e) ==
    /\ p \in PCs /\ e \in Edges \cup {"none"}
    /\ p = "force" => e \in RecoveryEdges
    /\ p = "check" => e \in Edges \ RecoveryEdges
    /\ p \in {"write", "log"} => e \in Edges

EdgeInv == \A r \in Runners : StepOK(pc[r], edge[r])

BaseInv == TypeOK /\ SlotInv /\ EdgeInv

LEMMA BaseInit == Init => BaseInv
<1> SUFFICES ASSUME Init PROVE BaseInv
    OBVIOUS
<1> USE PipelineAssumption DEF Init, Runners, Jobs
<1>1. TaskTypeOK
  <2>1. state \in TaskStates \cup {NoTask} /\ trail \in TaskStates \cup {NoTask}
    OBVIOUS
  <2>2. plan \in BOOLEAN /\ prRow \in BOOLEAN /\ githubPr \in BOOLEAN
    OBVIOUS
  <2>3. approvals \in Seq({"pending", "approved", "denied"})
    OBVIOUS
  <2>4. QED
    BY <2>1, <2>2, <2>3 DEF TaskTypeOK
<1>2. RunnerTypeOK /\ EdgeInv
  <2>1. bootFailed \in BOOLEAN
    OBVIOUS
  <2>2. QED
    BY <2>1 DEF RunnerTypeOK, EdgeInv, StepOK, PCs
<1>3. JobTypeOK /\ SlotInv
    BY DEF JobTypeOK, SlotInv, RunnerHeld
<1>4. RequestTypeOK
    BY DEF RequestTypeOK
<1>5. QED
    BY <1>1, <1>2, <1>3, <1>4 DEF BaseInv, TypeOK

\* Every transition leads to a task state, and its caller to a step of its own.
LEMMA EdgeFacts ==
  \A e \in Edges : /\ To(e) \in TaskStates
                   /\ Then(e) # "idle" /\ StepOK(Then(e), "none")
BY DEF Edges, RecoveryEdges, To, RecoveryTarget, Then, StepOK, PCs,
       TaskStates, HappyStates, TerminalStates, AlwaysFromActive

\* A running runner may go to any step that fits its transition, as long as the
\* rows stay well typed and no approval row disappears.
LEMMA MoveKeepsBase ==
  ASSUME BaseInv, NEW r \in Runners, pc[r] # "idle",
         NEW p, NEW e, StepOK(p, e), p # "idle", Goto(r, p, e), OnlyRunner,
         TaskTypeOK', Len(approvals) <= Len(approvals')
  PROVE  BaseInv'
<1> USE DEF BaseInv, OnlyRunner, workerVars, jobVars, requestVars, decideVars, cancelVars, boundVars
<1>1. Len(approvals) \in Nat /\ Len(approvals') \in Nat
    BY DEF TypeOK, TaskTypeOK
<1>2. TypeOK'
    BY DEF TypeOK, RunnerTypeOK, JobTypeOK, RequestTypeOK, Goto, StepOK
<1>3. SlotInv'
    BY <1>1 DEF SlotInv, RunnerHeld, Goto, TypeOK, RunnerTypeOK, RequestTypeOK
<1>4. EdgeInv'
    BY DEF EdgeInv, Goto, TypeOK, RunnerTypeOK
<1>5. QED
    BY <1>2, <1>3, <1>4

\* A run that throws frees its slot and uses up an attempt of its job.
LEMMA ThrowKeepsBase ==
  ASSUME BaseInv, NEW r \in Runners, pc[r] # "idle", Throw(r),
         UNCHANGED crashes, faults' \in 0..MaxFaults
  PROVE  BaseInv'
<1> USE PipelineAssumption DEF BaseInv, Throw, taskVars, workerVars, jobVars, requestVars, decideVars, cancelVars
<1>1. r # "boot" => r \in Jobs /\ job[r] = "active" /\ worker = "serving"
    BY DEF SlotInv, RunnerHeld
<1>2. r # "boot" => attempts[r] < MaxAttempts /\ attempts[r] \in Nat
    BY <1>1 DEF SlotInv, TypeOK, JobTypeOK
<1>3. RunnerTypeOK'
  <2>1. worker' \in {"down", "booting", "serving"} /\ bootFailed' \in BOOLEAN
    BY DEF TypeOK, RunnerTypeOK
  <2>2. QED
    BY <2>1 DEF TypeOK, RunnerTypeOK, PCs
<1>4. JobTypeOK'
    BY <1>1, <1>2 DEF TypeOK, JobTypeOK
<1>5. TypeOK'
    BY <1>3, <1>4 DEF TypeOK, TaskTypeOK, RequestTypeOK
<1>6. EdgeInv'
    BY DEF EdgeInv, StepOK, TypeOK, RunnerTypeOK, PCs
<1>7. (\A q \in Runners : RunnerHeld(q))'
    BY <1>1 DEF SlotInv, RunnerHeld, TypeOK, RunnerTypeOK, JobTypeOK, Runners, Jobs
<1>8. (\A j \in Jobs : job[j] \in {"none", "waiting", "active"} => attempts[j] < MaxAttempts)'
    BY <1>1, <1>2 DEF SlotInv, TypeOK, JobTypeOK
<1>9. (\A d \in Deciders : decide[d] # "answered" => job[d] = "none")'
    BY <1>1 DEF SlotInv, TypeOK, JobTypeOK, Jobs
<1>10. QED
    BY <1>5, <1>6, <1>7, <1>8, <1>9 DEF SlotInv

LEMMA BaseStep ==
  ASSUME BaseInv, [Next]_vars
  PROVE  BaseInv'
<1>1. ASSUME NEW r \in Runners, LookUpTask(r) PROVE BaseInv'
    BY <1>1, MoveKeepsBase DEF LookUpTask, BaseInv, StepOK, TypeOK, TaskTypeOK, taskVars,
       PCs, Edges, RecoveryEdges
<1>2. ASSUME NEW r \in Runners, CreateTask(r) PROVE BaseInv'
    BY <1>2, MoveKeepsBase DEF CreateTask, TaskStates, HappyStates, BaseInv, StepOK, TypeOK, TaskTypeOK, taskVars,
       PCs, Edges, RecoveryEdges
<1>3. ASSUME NEW r \in Runners, ReadTask(r) PROVE BaseInv'
    BY <1>3, MoveKeepsBase DEF ReadTask, Drive, BaseInv, StepOK, TypeOK, TaskTypeOK, taskVars,
       PCs, Edges, RecoveryEdges
<1>4. ASSUME NEW r \in Runners, FindPullRequest(r) PROVE BaseInv'
    BY <1>4, MoveKeepsBase DEF FindPullRequest, RecoveryEdge, BaseInv, StepOK, TypeOK, TaskTypeOK, taskVars,
       PCs, Edges, RecoveryEdges
<1>5. ASSUME NEW r \in Runners, ForceRecover(r) PROVE BaseInv'
    BY <1>5, MoveKeepsBase DEF ForceRecover, BaseInv, EdgeInv, StepOK, TypeOK, TaskTypeOK,
       taskVars, PCs, Edges
<1>6. ASSUME NEW r \in Runners, Reread(r) PROVE BaseInv'
    BY <1>6, MoveKeepsBase DEF Reread, Drive, BaseInv, StepOK, TypeOK, TaskTypeOK, taskVars,
       PCs, Edges, RecoveryEdges
<1>7. ASSUME NEW r \in Runners, Check(r) PROVE BaseInv'
  <2>1. CASE Goto(r, "write", edge[r]) /\ OnlyRunner /\ UNCHANGED taskVars
    BY <2>1, <1>7, MoveKeepsBase DEF Check, BaseInv, EdgeInv, StepOK, TypeOK, TaskTypeOK,
       taskVars, PCs
  <2>2. CASE Throw(r) /\ UNCHANGED boundVars
    BY <2>2, <1>7, ThrowKeepsBase DEF Check, boundVars, BaseInv, TypeOK
  <2>3. QED
    BY <1>7, <2>1, <2>2 DEF Check
<1>8. ASSUME NEW r \in Runners, WriteState(r) PROVE BaseInv'
  <2>1. edge[r] \in Edges /\ TaskTypeOK'
    BY <1>8, EdgeFacts DEF WriteState, BaseInv, EdgeInv, StepOK, TypeOK, TaskTypeOK
  <2>2. QED
    BY <1>8, <2>1, MoveKeepsBase DEF WriteState, StepOK, PCs, BaseInv, TypeOK, TaskTypeOK
<1>9. ASSUME NEW r \in Runners, LogState(r) PROVE BaseInv'
  <2>1. edge[r] \in Edges /\ TaskTypeOK'
    BY <1>9, EdgeFacts DEF LogState, BaseInv, EdgeInv, StepOK, TypeOK, TaskTypeOK
  <2>2. QED
    BY <1>9, <2>1, EdgeFacts, MoveKeepsBase DEF LogState, BaseInv, TypeOK, TaskTypeOK
<1>10. ASSUME NEW r \in Runners, Plan(r) PROVE BaseInv'
  <2>1. plan' \in BOOLEAN
    BY <1>10 DEF Plan, BaseInv, TypeOK, TaskTypeOK
  <2>2. TaskTypeOK'
    BY <1>10, <2>1 DEF Plan, BaseInv, TypeOK, TaskTypeOK
  <2>3. PICK e \in {"planned", "planFailed"} : Goto(r, "check", e)
    BY <1>10 DEF Plan
  <2>4. QED
    BY <1>10, <2>2, <2>3, MoveKeepsBase DEF Plan, StepOK, PCs, Edges, RecoveryEdges,
       BaseInv, TypeOK, TaskTypeOK
<1>11. ASSUME NEW r \in Runners, RequestApproval(r) PROVE BaseInv'
    BY <1>11, MoveKeepsBase DEF RequestApproval, BaseInv, StepOK, TypeOK, TaskTypeOK, taskVars,
       PCs, Edges, RecoveryEdges
<1>12. ASSUME NEW r \in Runners, FindApproval(r) PROVE BaseInv'
  <2>1. CASE Throw(r) /\ UNCHANGED boundVars
    BY <2>1, <1>12, ThrowKeepsBase DEF FindApproval, boundVars, BaseInv, TypeOK
  <2>2. ASSUME OnlyRunner,
               \/ Goto(r, "check", "implement") \/ Goto(r, "check", "deny")
               \/ Goto(r, "end", "none")
        PROVE  BaseInv'
    BY <2>2, <1>12, MoveKeepsBase DEF FindApproval, BaseInv, StepOK, TypeOK, TaskTypeOK,
       taskVars, PCs, Edges, RecoveryEdges
  <2>3. QED
    BY <1>12, <2>1, <2>2 DEF FindApproval
<1>13. ASSUME NEW r \in Runners, Code(r) PROVE BaseInv'
  <2>1. githubPr' \in BOOLEAN
    BY <1>13 DEF Code, MayOpenPullRequest, BaseInv, TypeOK, TaskTypeOK
  <2>2. TaskTypeOK'
    BY <1>13, <2>1 DEF Code, BaseInv, TypeOK, TaskTypeOK
  <2>3. QED
    BY <1>13, <2>2, MoveKeepsBase DEF Code, StepOK, PCs, Edges, RecoveryEdges, BaseInv,
       TypeOK, TaskTypeOK
<1>14. ASSUME NEW r \in Runners, VerificationGate(r) PROVE BaseInv'
  <2>1. CASE Goto(r, "check", "review") \/ Goto(r, "check", "blockTesting")
    BY <2>1, <1>14, MoveKeepsBase DEF VerificationGate, BaseInv, StepOK, TypeOK, TaskTypeOK,
       taskVars, PCs, Edges, RecoveryEdges
  <2>2. CASE /\ FixAttemptsLeft(r)
             /\ pc' = [pc EXCEPT ![r] = "check"]
             /\ edge' = [edge EXCEPT ![r] = "fix"]
             /\ fixes' = [fixes EXCEPT ![r] = CountFixAttempt(r)]
    <3> USE <1>14, <2>2, PipelineAssumption
        DEF VerificationGate, BaseInv, OnlyRunner, taskVars, workerVars, jobVars, requestVars,
            decideVars, cancelVars, boundVars
    <3>1. fixes[r] \in 0..MaxFixAttempts /\ fixes[r] + 1 \in 0..MaxFixAttempts
      BY DEF FixAttemptsLeft, TypeOK, RunnerTypeOK
    <3>2. RunnerTypeOK'
      BY <3>1 DEF CountFixAttempt, TypeOK, RunnerTypeOK, PCs, Edges
    <3>3. TypeOK'
      BY <3>2 DEF TypeOK, TaskTypeOK, JobTypeOK, RequestTypeOK
    <3>4. SlotInv'
      BY DEF SlotInv, RunnerHeld, TypeOK, RunnerTypeOK
    <3>5. EdgeInv'
      BY DEF EdgeInv, StepOK, TypeOK, RunnerTypeOK, PCs, Edges, RecoveryEdges
    <3>6. QED
      BY <3>3, <3>4, <3>5
  <2>3. QED
    BY <1>14, <2>1, <2>2 DEF VerificationGate
<1>15. ASSUME NEW r \in Runners, FixCode(r) PROVE BaseInv'
  <2>1. githubPr' \in BOOLEAN
    BY <1>15 DEF FixCode, MayOpenPullRequest, BaseInv, TypeOK, TaskTypeOK
  <2>2. TaskTypeOK'
    BY <1>15, <2>1 DEF FixCode, BaseInv, TypeOK, TaskTypeOK
  <2>3. QED
    BY <1>15, <2>2, MoveKeepsBase DEF FixCode, StepOK, PCs, Edges, RecoveryEdges, BaseInv,
       TypeOK, TaskTypeOK
<1>16. ASSUME NEW r \in Runners, Push(r) PROVE BaseInv'
    BY <1>16, MoveKeepsBase DEF Push, BaseInv, StepOK, TypeOK, TaskTypeOK, taskVars,
       PCs, Edges, RecoveryEdges
<1>17. ASSUME NEW r \in Runners, OpenPullRequest(r) PROVE BaseInv'
  <2>1. githubPr' \in BOOLEAN
    BY <1>17 DEF OpenPullRequest, MayOpenPullRequest, BaseInv, TypeOK, TaskTypeOK
  <2>2. TaskTypeOK'
    BY <1>17, <2>1 DEF OpenPullRequest, BaseInv, TypeOK, TaskTypeOK
  <2>3. \/ Goto(r, "recordPr", "none")
        \/ Goto(r, "check", "blockReview")
    BY <1>17 DEF OpenPullRequest
  <2>4. QED
    BY <1>17, <2>2, <2>3, MoveKeepsBase DEF OpenPullRequest, StepOK, PCs, Edges,
       RecoveryEdges, BaseInv, TypeOK, TaskTypeOK
<1>18. ASSUME NEW r \in Runners, RecordPullRequest(r) PROVE BaseInv'
  <2>1. CASE Throw(r) /\ UNCHANGED boundVars
    BY <2>1, <1>18, ThrowKeepsBase DEF RecordPullRequest, boundVars, BaseInv, TypeOK
  <2>2. CASE /\ prRow' = TRUE /\ Goto(r, "check", "prCreated") /\ OnlyRunner
             /\ UNCHANGED <<state, plan, approvals, trail, githubPr>>
    <3>1. prRow' \in BOOLEAN
      BY <2>2
    <3>2. TaskTypeOK'
      BY <2>2, <3>1 DEF BaseInv, TypeOK, TaskTypeOK
    <3>3. QED
      BY <1>18, <2>2, <3>2, MoveKeepsBase DEF RecordPullRequest, StepOK, PCs, Edges,
         RecoveryEdges, BaseInv, TypeOK, TaskTypeOK
  <2>3. QED
    BY <1>18, <2>1, <2>2 DEF RecordPullRequest
<1>19. ASSUME NEW r \in Runners, Announce(r) PROVE BaseInv'
    BY <1>19, MoveKeepsBase DEF Announce, BaseInv, StepOK, TypeOK, TaskTypeOK, taskVars,
       PCs, Edges, RecoveryEdges
<1>20. ASSUME NEW r \in Runners, End(r) PROVE BaseInv'
  <2> USE <1>20, PipelineAssumption
      DEF End, BaseInv, taskVars, runnerVars, workerVars, jobVars, requestVars, decideVars,
          cancelVars, boundVars
  <2>1. RunnerTypeOK'
    BY DEF TypeOK, RunnerTypeOK, PCs
  <2>2. JobTypeOK'
    BY DEF TypeOK, JobTypeOK
  <2>3. TypeOK'
    BY <2>1, <2>2 DEF TypeOK, TaskTypeOK, RequestTypeOK
  <2>4. r # "boot" => r \in Jobs /\ job[r] = "active" /\ worker = "serving"
    BY DEF SlotInv, RunnerHeld
  <2>5. (\A q \in Runners : RunnerHeld(q))'
    BY <2>4 DEF SlotInv, RunnerHeld, TypeOK, RunnerTypeOK, JobTypeOK, Runners, Jobs
  <2>6. (\A j \in Jobs : job[j] \in {"none", "waiting", "active"} => attempts[j] < MaxAttempts)'
    BY <2>4 DEF SlotInv, TypeOK, JobTypeOK
  <2>7. (\A i \in Deciders : decide[i] # "answered" => job[i] = "none")'
    BY <2>4 DEF SlotInv, TypeOK, JobTypeOK, Jobs
  <2>8. EdgeInv'
    BY DEF EdgeInv, StepOK, TypeOK, RunnerTypeOK, PCs
  <2>9. QED
    BY <2>3, <2>5, <2>6, <2>7, <2>8 DEF SlotInv
<1>21. ASSUME NEW r \in Runners, Fault(r) PROVE BaseInv'
  <2>1. faults' \in 0..MaxFaults
    BY <1>21, PipelineAssumption DEF Fault, BaseInv, TypeOK
  <2>2. QED
    BY <1>21, <2>1, ThrowKeepsBase DEF Fault
<1>22. ASSUME NEW j \in Jobs, StartJob(j) PROVE BaseInv'
  <2> USE <1>22, PipelineAssumption
      DEF StartJob, BaseInv, taskVars, runnerVars, workerVars, jobVars, requestVars, decideVars,
          cancelVars, boundVars
  <2>1. TypeOK'
    BY DEF TypeOK, TaskTypeOK, RunnerTypeOK, JobTypeOK, RequestTypeOK, PCs, Goto
  <2>2. SlotInv'
    BY DEF SlotInv, RunnerHeld, TypeOK, TaskTypeOK, RunnerTypeOK, JobTypeOK, RequestTypeOK,
       Runners, Jobs, Goto
  <2>3. EdgeInv'
    BY DEF EdgeInv, StepOK, TypeOK, RunnerTypeOK, PCs, Goto, Runners, Jobs
  <2>4. QED
    BY <2>1, <2>2, <2>3
<1>23. ASSUME NEW d \in Deciders, DecideFind(d) PROVE BaseInv'
  <2> USE <1>23, PipelineAssumption
      DEF DecideFind, BaseInv, taskVars, runnerVars, workerVars, jobVars, requestVars, decideVars,
          cancelVars, boundVars
  <2>1. TypeOK'
    BY DEF TypeOK, TaskTypeOK, RunnerTypeOK, JobTypeOK, RequestTypeOK, PCs, Goto
  <2>2. SlotInv'
    BY SMTT(20) DEF SlotInv, RunnerHeld, TypeOK, TaskTypeOK, RunnerTypeOK, JobTypeOK, RequestTypeOK,
       Runners, Jobs, Goto
  <2>3. EdgeInv'
    BY DEF EdgeInv, StepOK, TypeOK, RunnerTypeOK, PCs, Goto, Runners, Jobs
  <2>4. QED
    BY <2>1, <2>2, <2>3
<1>24. ASSUME NEW d \in Deciders, DecideUpdate(d) PROVE BaseInv'
  <2> USE <1>24, PipelineAssumption
      DEF DecideUpdate, BaseInv, taskVars, runnerVars, workerVars, jobVars, requestVars, decideVars,
          cancelVars, boundVars
  <2>1. target[d] \in 1..Len(approvals) /\ approvals \in Seq({"pending", "approved", "denied"})
    BY DEF SlotInv, TypeOK, TaskTypeOK
  <2>2. /\ approvals' \in Seq({"pending", "approved", "denied"})
        /\ Len(approvals') = Len(approvals)
    BY <2>1 DEF TypeOK, RequestTypeOK
  <2>3. TypeOK'
    BY <2>2 DEF TypeOK, TaskTypeOK, RunnerTypeOK, JobTypeOK, RequestTypeOK
  <2>4. SlotInv'
    BY <2>2 DEF SlotInv, RunnerHeld, TypeOK, RequestTypeOK
  <2>5. EdgeInv'
    BY DEF EdgeInv
  <2>6. QED
    BY <2>3, <2>4, <2>5
<1>25. ASSUME NEW d \in Deciders, DecideEnqueue(d) PROVE BaseInv'
  <2> USE <1>25, PipelineAssumption
      DEF DecideEnqueue, BaseInv, taskVars, runnerVars, workerVars, jobVars, requestVars, decideVars,
          cancelVars, boundVars
  <2>1. TypeOK'
    BY DEF TypeOK, TaskTypeOK, RunnerTypeOK, JobTypeOK, RequestTypeOK, PCs, Goto
  <2>2. SlotInv'
    BY DEF SlotInv, RunnerHeld, TypeOK, TaskTypeOK, RunnerTypeOK, JobTypeOK, RequestTypeOK,
       Runners, Jobs, Goto
  <2>3. EdgeInv'
    BY DEF EdgeInv, StepOK, TypeOK, RunnerTypeOK, PCs, Goto, Runners, Jobs
  <2>4. QED
    BY <2>1, <2>2, <2>3
<1>26. ASSUME NEW c \in Cancellers, CancelRead(c) PROVE BaseInv'
  <2> USE <1>26, PipelineAssumption
      DEF CancelRead, BaseInv, taskVars, runnerVars, workerVars, jobVars, requestVars, decideVars,
          cancelVars, boundVars
  <2>1. TypeOK'
    BY DEF TypeOK, TaskTypeOK, RunnerTypeOK, JobTypeOK, RequestTypeOK, PCs, Goto
  <2>2. SlotInv'
    BY DEF SlotInv, RunnerHeld, TypeOK, TaskTypeOK, RunnerTypeOK, JobTypeOK, RequestTypeOK,
       Runners, Jobs, Goto
  <2>3. EdgeInv'
    BY DEF EdgeInv, StepOK, TypeOK, RunnerTypeOK, PCs, Goto, Runners, Jobs
  <2>4. QED
    BY <2>1, <2>2, <2>3
<1>27. ASSUME NEW c \in Cancellers, CancelCheck(c) PROVE BaseInv'
  <2> USE <1>27, PipelineAssumption
      DEF CancelCheck, BaseInv, taskVars, runnerVars, workerVars, jobVars, requestVars, decideVars,
          cancelVars, boundVars
  <2>1. TypeOK'
    BY DEF TypeOK, TaskTypeOK, RunnerTypeOK, JobTypeOK, RequestTypeOK, PCs, Goto
  <2>2. SlotInv'
    BY DEF SlotInv, RunnerHeld, TypeOK, TaskTypeOK, RunnerTypeOK, JobTypeOK, RequestTypeOK,
       Runners, Jobs, Goto
  <2>3. EdgeInv'
    BY DEF EdgeInv, StepOK, TypeOK, RunnerTypeOK, PCs, Goto, Runners, Jobs
  <2>4. QED
    BY <2>1, <2>2, <2>3
<1>28. ASSUME NEW c \in Cancellers, CancelWrite(c) PROVE BaseInv'
  <2> USE <1>28, PipelineAssumption
      DEF CancelWrite, BaseInv, taskVars, runnerVars, workerVars, jobVars, requestVars, decideVars,
          cancelVars, boundVars
  <2>1. TypeOK'
    BY DEF TypeOK, TaskTypeOK, RunnerTypeOK, JobTypeOK, RequestTypeOK,
       TaskStates, TerminalStates
  <2>2. SlotInv'
    BY DEF SlotInv, RunnerHeld, TypeOK, TaskTypeOK, RunnerTypeOK, JobTypeOK, RequestTypeOK,
       Runners, Jobs, Goto
  <2>3. EdgeInv'
    BY DEF EdgeInv, StepOK, TypeOK, RunnerTypeOK, PCs, Goto, Runners, Jobs
  <2>4. QED
    BY <2>1, <2>2, <2>3
<1>29. ASSUME NEW c \in Cancellers, CancelLog(c) PROVE BaseInv'
  <2> USE <1>29, PipelineAssumption
      DEF CancelLog, BaseInv, taskVars, runnerVars, workerVars, jobVars, requestVars, decideVars,
          cancelVars, boundVars
  <2>1. TypeOK'
    BY DEF TypeOK, TaskTypeOK, RunnerTypeOK, JobTypeOK, RequestTypeOK,
       TaskStates, TerminalStates
  <2>2. SlotInv'
    BY DEF SlotInv, RunnerHeld, TypeOK, TaskTypeOK, RunnerTypeOK, JobTypeOK, RequestTypeOK,
       Runners, Jobs, Goto
  <2>3. EdgeInv'
    BY DEF EdgeInv, StepOK, TypeOK, RunnerTypeOK, PCs, Goto, Runners, Jobs
  <2>4. QED
    BY <2>1, <2>2, <2>3
<1>30. ASSUME WorkerCrash PROVE BaseInv'
  <2> USE <1>30, PipelineAssumption
      DEF WorkerCrash, BaseInv, taskVars, runnerVars, workerVars, jobVars, requestVars, decideVars,
          cancelVars, boundVars
  <2>1. TypeOK'
    BY DEF TypeOK, TaskTypeOK, RunnerTypeOK, JobTypeOK, RequestTypeOK, PCs, Goto
  <2>2. SlotInv'
    BY DEF SlotInv, RunnerHeld, TypeOK, TaskTypeOK, RunnerTypeOK, JobTypeOK, RequestTypeOK,
       Runners, Jobs, Goto
  <2>3. EdgeInv'
    BY DEF EdgeInv, StepOK, TypeOK, RunnerTypeOK, PCs, Goto, Runners, Jobs
  <2>4. QED
    BY <2>1, <2>2, <2>3
<1>31. ASSUME Boot PROVE BaseInv'
  <2> USE <1>31, PipelineAssumption
      DEF Boot, BaseInv, taskVars, runnerVars, workerVars, jobVars, requestVars, decideVars,
          cancelVars, boundVars
  <2>1. TypeOK'
    BY ZenonT(30) DEF TypeOK, TaskTypeOK, RunnerTypeOK, JobTypeOK, RequestTypeOK, PCs, Goto
  <2>2. SlotInv'
    BY DEF SlotInv, RunnerHeld, TypeOK, TaskTypeOK, RunnerTypeOK, JobTypeOK, RequestTypeOK,
       Runners, Jobs, Goto
  <2>3. EdgeInv'
    BY DEF EdgeInv, StepOK, TypeOK, RunnerTypeOK, PCs, Goto, Runners, Jobs
  <2>4. QED
    BY <2>1, <2>2, <2>3
<1>32. ASSUME ApiCrash PROVE BaseInv'
  <2> USE <1>32, PipelineAssumption
      DEF ApiCrash, BaseInv, taskVars, runnerVars, workerVars, jobVars, requestVars, decideVars,
          cancelVars, boundVars
  <2>1. TypeOK'
    BY SMTT(20) DEF TypeOK, TaskTypeOK, RunnerTypeOK, JobTypeOK, RequestTypeOK, PCs, Goto
  <2>2. SlotInv'
    BY DEF SlotInv, RunnerHeld, TypeOK, TaskTypeOK, RunnerTypeOK, JobTypeOK, RequestTypeOK,
       Runners, Jobs, Goto
  <2>3. EdgeInv'
    BY DEF EdgeInv, StepOK, TypeOK, RunnerTypeOK, PCs, Goto, Runners, Jobs
  <2>4. QED
    BY <2>1, <2>2, <2>3
<1>33. CASE UNCHANGED vars
    BY <1>33 DEF vars, taskVars, runnerVars, workerVars, jobVars, requestVars, decideVars, cancelVars,
       boundVars, BaseInv, TypeOK, TaskTypeOK, RunnerTypeOK, JobTypeOK, RequestTypeOK,
       SlotInv, RunnerHeld, EdgeInv
<1>34. QED
    BY <1>1, <1>2, <1>3, <1>4, <1>5, <1>6, <1>7, <1>8, <1>9, <1>10, <1>11,
       <1>12, <1>13, <1>14, <1>15, <1>16, <1>17, <1>18, <1>19, <1>20, <1>21,
       <1>22, <1>23, <1>24, <1>25, <1>26, <1>27, <1>28, <1>29, <1>30, <1>31,
       <1>32, <1>33 DEF Next, RunStep, DecideStep, CancelStep

-----------------------------------------------------------------------------
(* Part 2: what a program counter knows about the rows.                    *)

AtEdge(r, E) == pc[r] \in {"force", "check", "write", "log"} /\ edge[r] \in E

\* Runner r acts on a plan.
Planned(r) ==
    \/ pc[r] \in ImplementationPCs \cup {"findPr", "requestApproval", "findApproval", "announce"}
    \/ AtEdge(r, Edges \ {"analyze", "planFailed", "replan"})

PlanInv == PlanBeforeWork /\ \A r \in Runners : Planned(r) => plan

\* Runner r has seen the recorded pull request, or recorded it.
Recorded(r) == pc[r] = "announce" \/ AtEdge(r, {"prCreated", "handover", "fastForward"})

PullRequestInv ==
    /\ ReviewHasPullRequest
    /\ prRow => githubPr
    /\ \A r \in Runners : /\ Recorded(r) => prRow
                          /\ pc[r] = "recordPr" => githubPr

LEMMA PlanStep ==
  ASSUME BaseInv, PlanInv, [Next]_vars
  PROVE  PlanInv'
<1> USE PipelineAssumption
    DEF PlanInv, PlanBeforeWork, Planned, AtEdge, ImplementationPCs, InProgress, BaseInv, EdgeInv, StepOK, TypeOK, TaskTypeOK, RunnerTypeOK, Goto, OnlyRunner,
        taskVars, runnerVars, Edges, RecoveryEdges
<1>1. ASSUME NEW r \in Runners, LookUpTask(r) PROVE PlanInv'
    BY <1>1 DEF LookUpTask
<1>2. ASSUME NEW r \in Runners, CreateTask(r) PROVE PlanInv'
    BY <1>2 DEF CreateTask
<1>3. ASSUME NEW r \in Runners, ReadTask(r) PROVE PlanInv'
    BY <1>3 DEF ReadTask, Drive
<1>4. ASSUME NEW r \in Runners, FindPullRequest(r) PROVE PlanInv'
    BY <1>4 DEF FindPullRequest, RecoveryEdge
<1>5. ASSUME NEW r \in Runners, ForceRecover(r) PROVE PlanInv'
    BY <1>5 DEF ForceRecover
<1>6. ASSUME NEW r \in Runners, Reread(r) PROVE PlanInv'
    BY <1>6 DEF Reread, Drive
<1>7. ASSUME NEW r \in Runners, Check(r) PROVE PlanInv'
    BY SMTT(20), <1>7 DEF Check, Throw
<1>8. ASSUME NEW r \in Runners, WriteState(r) PROVE PlanInv'
    BY <1>8 DEF WriteState, To, RecoveryTarget
<1>9. ASSUME NEW r \in Runners, LogState(r) PROVE PlanInv'
    BY <1>9 DEF LogState, Then, To, RecoveryTarget
<1>10. ASSUME NEW r \in Runners, Plan(r) PROVE PlanInv'
  <2>1. state' = state /\ (plan => plan')
    BY <1>10 DEF Plan
  <2>2. \A q \in Runners : q # r => pc'[q] = pc[q] /\ edge'[q] = edge[q]
    BY <1>10 DEF Plan
  <2>3. pc'[r] = "check" /\ (edge'[r] = "planFailed" \/ (edge'[r] = "planned" /\ plan'))
    BY <1>10 DEF Plan
  <2>4. QED
    BY <2>1, <2>2, <2>3
<1>11. ASSUME NEW r \in Runners, RequestApproval(r) PROVE PlanInv'
    BY <1>11 DEF RequestApproval
<1>12. ASSUME NEW r \in Runners, FindApproval(r) PROVE PlanInv'
    BY <1>12 DEF FindApproval, Throw
<1>13. ASSUME NEW r \in Runners, Code(r) PROVE PlanInv'
    BY <1>13 DEF Code
<1>14. ASSUME NEW r \in Runners, VerificationGate(r) PROVE PlanInv'
    BY <1>14 DEF VerificationGate, FixAttemptsLeft, CountFixAttempt
<1>15. ASSUME NEW r \in Runners, FixCode(r) PROVE PlanInv'
    BY <1>15 DEF FixCode
<1>16. ASSUME NEW r \in Runners, Push(r) PROVE PlanInv'
    BY <1>16 DEF Push
<1>17. ASSUME NEW r \in Runners, OpenPullRequest(r) PROVE PlanInv'
    BY <1>17 DEF OpenPullRequest
<1>18. ASSUME NEW r \in Runners, RecordPullRequest(r) PROVE PlanInv'
    BY <1>18 DEF RecordPullRequest, Throw
<1>19. ASSUME NEW r \in Runners, Announce(r) PROVE PlanInv'
    BY <1>19 DEF Announce
<1>20. ASSUME NEW r \in Runners, End(r) PROVE PlanInv'
    BY <1>20 DEF End
<1>21. ASSUME NEW r \in Runners, Fault(r) PROVE PlanInv'
    BY <1>21 DEF Fault, Throw
<1>22. ASSUME NEW j \in Jobs, StartJob(j) PROVE PlanInv'
    BY <1>22 DEF StartJob
<1>23. ASSUME NEW d \in Deciders, DecideFind(d) PROVE PlanInv'
    BY <1>23 DEF DecideFind
<1>24. ASSUME NEW d \in Deciders, DecideUpdate(d) PROVE PlanInv'
    BY <1>24 DEF DecideUpdate
<1>25. ASSUME NEW d \in Deciders, DecideEnqueue(d) PROVE PlanInv'
    BY <1>25 DEF DecideEnqueue
<1>26. ASSUME NEW c \in Cancellers, CancelRead(c) PROVE PlanInv'
    BY <1>26 DEF CancelRead
<1>27. ASSUME NEW c \in Cancellers, CancelCheck(c) PROVE PlanInv'
    BY <1>27 DEF CancelCheck
<1>28. ASSUME NEW c \in Cancellers, CancelWrite(c) PROVE PlanInv'
    BY <1>28 DEF CancelWrite
<1>29. ASSUME NEW c \in Cancellers, CancelLog(c) PROVE PlanInv'
    BY <1>29 DEF CancelLog
<1>30. ASSUME WorkerCrash PROVE PlanInv'
    BY <1>30 DEF WorkerCrash
<1>31. ASSUME Boot PROVE PlanInv'
    BY <1>31 DEF Boot
<1>32. ASSUME ApiCrash PROVE PlanInv'
    BY <1>32 DEF ApiCrash
<1>33. CASE UNCHANGED vars
    BY <1>33 DEF vars
<1>34. QED
    BY <1>1, <1>2, <1>3, <1>4, <1>5, <1>6, <1>7, <1>8, <1>9, <1>10, <1>11,
       <1>12, <1>13, <1>14, <1>15, <1>16, <1>17, <1>18, <1>19, <1>20, <1>21,
       <1>22, <1>23, <1>24, <1>25, <1>26, <1>27, <1>28, <1>29, <1>30, <1>31,
       <1>32, <1>33 DEF Next, RunStep, DecideStep, CancelStep

LEMMA PullRequestStep ==
  ASSUME BaseInv, PullRequestInv, [Next]_vars
  PROVE  PullRequestInv'
<1> USE PipelineAssumption
    DEF PullRequestInv, ReviewHasPullRequest, Recorded, AtEdge, BaseInv, EdgeInv, StepOK, TypeOK, TaskTypeOK, RunnerTypeOK, Goto, OnlyRunner,
        taskVars, runnerVars, Edges, RecoveryEdges
<1>1. ASSUME NEW r \in Runners, LookUpTask(r) PROVE PullRequestInv'
    BY <1>1 DEF LookUpTask
<1>2. ASSUME NEW r \in Runners, CreateTask(r) PROVE PullRequestInv'
    BY <1>2 DEF CreateTask
<1>3. ASSUME NEW r \in Runners, ReadTask(r) PROVE PullRequestInv'
    BY <1>3 DEF ReadTask, Drive
<1>4. ASSUME NEW r \in Runners, FindPullRequest(r) PROVE PullRequestInv'
    BY <1>4 DEF FindPullRequest, RecoveryEdge
<1>5. ASSUME NEW r \in Runners, ForceRecover(r) PROVE PullRequestInv'
    BY <1>5 DEF ForceRecover
<1>6. ASSUME NEW r \in Runners, Reread(r) PROVE PullRequestInv'
    BY <1>6 DEF Reread, Drive
<1>7. ASSUME NEW r \in Runners, Check(r) PROVE PullRequestInv'
    BY <1>7 DEF Check, Throw
<1>8. ASSUME NEW r \in Runners, WriteState(r) PROVE PullRequestInv'
    BY <1>8 DEF WriteState, To, RecoveryTarget
<1>9. ASSUME NEW r \in Runners, LogState(r) PROVE PullRequestInv'
    BY <1>9 DEF LogState, Then, To, RecoveryTarget
<1>10. ASSUME NEW r \in Runners, Plan(r) PROVE PullRequestInv'
    BY SMTT(20), <1>10 DEF Plan
<1>11. ASSUME NEW r \in Runners, RequestApproval(r) PROVE PullRequestInv'
    BY <1>11 DEF RequestApproval
<1>12. ASSUME NEW r \in Runners, FindApproval(r) PROVE PullRequestInv'
    BY <1>12 DEF FindApproval, Throw
<1>13. ASSUME NEW r \in Runners, Code(r) PROVE PullRequestInv'
  <2>1. UNCHANGED <<state, prRow>> /\ (githubPr => githubPr')
    <3>1. githubPr \in BOOLEAN /\ githubPr' \in {githubPr, TRUE}
      BY <1>13 DEF Code, MayOpenPullRequest
    <3>2. githubPr => githubPr'
      BY <3>1
    <3>3. QED
      BY <1>13, <3>2 DEF Code
  <2>2. \A q \in Runners : q # r => pc'[q] = pc[q] /\ edge'[q] = edge[q]
    BY <1>13 DEF Code
  <2>3. pc'[r] = "check" /\ edge'[r] \in {"test", "blockImplementing"}
    BY <1>13 DEF Code
  <2>4. QED
    BY <2>1, <2>2, <2>3
<1>14. ASSUME NEW r \in Runners, VerificationGate(r) PROVE PullRequestInv'
    BY <1>14 DEF VerificationGate, FixAttemptsLeft, CountFixAttempt
<1>15. ASSUME NEW r \in Runners, FixCode(r) PROVE PullRequestInv'
  <2>1. UNCHANGED <<state, prRow>> /\ (githubPr => githubPr')
    <3>1. githubPr \in BOOLEAN /\ githubPr' \in {githubPr, TRUE}
      BY <1>15 DEF FixCode, MayOpenPullRequest
    <3>2. githubPr => githubPr'
      BY <3>1
    <3>3. QED
      BY <1>15, <3>2 DEF FixCode
  <2>2. \A q \in Runners : q # r => pc'[q] = pc[q] /\ edge'[q] = edge[q]
    BY <1>15 DEF FixCode
  <2>3. pc'[r] = "check" /\ edge'[r] \in {"retest", "blockFixing"}
    BY <1>15 DEF FixCode
  <2>4. QED
    BY <2>1, <2>2, <2>3
<1>16. ASSUME NEW r \in Runners, Push(r) PROVE PullRequestInv'
    BY ZenonT(60), <1>16 DEF Push
<1>17. ASSUME NEW r \in Runners, OpenPullRequest(r) PROVE PullRequestInv'
  <2>1. UNCHANGED <<state, prRow>> /\ (githubPr => githubPr')
    <3>1. githubPr \in BOOLEAN /\ githubPr' \in {githubPr, TRUE}
      BY <1>17 DEF OpenPullRequest, MayOpenPullRequest
    <3>2. githubPr => githubPr'
      BY <3>1
    <3>3. QED
      BY <1>17, <3>2 DEF OpenPullRequest
  <2>2. \A q \in Runners : q # r => pc'[q] = pc[q] /\ edge'[q] = edge[q]
    BY <1>17 DEF OpenPullRequest
  <2>3. \/ pc'[r] = "recordPr" /\ githubPr'
        \/ pc'[r] = "check" /\ edge'[r] = "blockReview"
    BY <1>17 DEF OpenPullRequest
  <2>4. QED
    BY <2>1, <2>2, <2>3
<1>18. ASSUME NEW r \in Runners, RecordPullRequest(r) PROVE PullRequestInv'
    BY <1>18 DEF RecordPullRequest, Throw
<1>19. ASSUME NEW r \in Runners, Announce(r) PROVE PullRequestInv'
    BY <1>19 DEF Announce
<1>20. ASSUME NEW r \in Runners, End(r) PROVE PullRequestInv'
    BY <1>20 DEF End
<1>21. ASSUME NEW r \in Runners, Fault(r) PROVE PullRequestInv'
    BY <1>21 DEF Fault, Throw
<1>22. ASSUME NEW j \in Jobs, StartJob(j) PROVE PullRequestInv'
    BY <1>22 DEF StartJob
<1>23. ASSUME NEW d \in Deciders, DecideFind(d) PROVE PullRequestInv'
    BY <1>23 DEF DecideFind
<1>24. ASSUME NEW d \in Deciders, DecideUpdate(d) PROVE PullRequestInv'
    BY <1>24 DEF DecideUpdate
<1>25. ASSUME NEW d \in Deciders, DecideEnqueue(d) PROVE PullRequestInv'
    BY <1>25 DEF DecideEnqueue
<1>26. ASSUME NEW c \in Cancellers, CancelRead(c) PROVE PullRequestInv'
    BY <1>26 DEF CancelRead
<1>27. ASSUME NEW c \in Cancellers, CancelCheck(c) PROVE PullRequestInv'
    BY <1>27 DEF CancelCheck
<1>28. ASSUME NEW c \in Cancellers, CancelWrite(c) PROVE PullRequestInv'
    BY <1>28 DEF CancelWrite
<1>29. ASSUME NEW c \in Cancellers, CancelLog(c) PROVE PullRequestInv'
    BY <1>29 DEF CancelLog
<1>30. ASSUME WorkerCrash PROVE PullRequestInv'
    BY <1>30 DEF WorkerCrash
<1>31. ASSUME Boot PROVE PullRequestInv'
    BY SMTT(20), <1>31 DEF Boot
<1>32. ASSUME ApiCrash PROVE PullRequestInv'
    BY <1>32 DEF ApiCrash
<1>33. CASE UNCHANGED vars
    BY <1>33 DEF vars
<1>34. QED
    BY <1>1, <1>2, <1>3, <1>4, <1>5, <1>6, <1>7, <1>8, <1>9, <1>10, <1>11,
       <1>12, <1>13, <1>14, <1>15, <1>16, <1>17, <1>18, <1>19, <1>20, <1>21,
       <1>22, <1>23, <1>24, <1>25, <1>26, <1>27, <1>28, <1>29, <1>30, <1>31,
       <1>32, <1>33 DEF Next, RunStep, DecideStep, CancelStep

-----------------------------------------------------------------------------
(* Part 3: the approval row is asked for once, and consent is never lost.  *)

EarlyStates == {NoTask, "CREATED", "ANALYZING", "PLANNED"}

\* Runner r may still bring the task to a state before AWAITING_APPROVAL.
Early(r) == \/ pc[r] \in {"create", "plan", "requestApproval"}
            \/ AtEdge(r, {"analyze", "planned", "await", "replan"})

\* Runner r has reached AWAITING_APPROVAL and is about to create the row.
Asking(r) == pc[r] = "requestApproval" \/ (pc[r] = "log" /\ edge[r] = "await")

ApprovalInv ==
    /\ AtMostOnePlanApproval
    /\ approvals # <<>> => state \notin EarlyStates /\ \A r \in Runners : ~Early(r)
    /\ \A r \in Runners : Asking(r) => state \notin EarlyStates

ImplementationEdges ==
    Edges \ (RecoveryEdges \cup {"analyze", "planned", "planFailed", "await", "deny"})

Implementing(r) == \/ pc[r] \in ImplementationPCs \cup {"announce"}
                   \/ AtEdge(r, ImplementationEdges)

ConsentInv ==
    ~AutoApprovePlans =>
      /\ githubPr \/ state \in InProgress => Consent
      /\ \A r \in Runners : Implementing(r) => Consent
      /\ \A i \in 1..Len(approvals) : approvals[i] = "approved" => Consent

\* Until a person can decide, at most one run is in progress: no resume job
\* exists, and the worker takes jobs only after booting.
LEMMA OneRunner ==
  ASSUME BaseInv, approvals = <<>>, NEW q \in Runners, NEW r \in Runners,
         pc[q] # "idle", pc[r] # "idle"
  PROVE  q = r
<1>1. \A d \in Deciders : decide[d] = "idle"
  <2>1. Len(approvals) = 0
    OBVIOUS
  <2>2. QED
    BY <2>1 DEF BaseInv, SlotInv
<1>2. \A d \in Deciders : job[d] = "none"
    BY <1>1 DEF BaseInv, SlotInv
<1>3. QED
    BY <1>2 DEF BaseInv, SlotInv, RunnerHeld, Runners, Jobs

\* No decide request is ever taken back.
LEMMA ConsentStays ==
  ASSUME BaseInv, [Next]_vars, Consent
  PROVE  Consent'
<1>1. PICK d \in Deciders : /\ decide[d] \in {"decided", "answered", "unsent"}
                            /\ decision[d] = "approved"
    BY DEF Consent
<1>2. decide'[d] \in {"decided", "answered", "unsent"} /\ decision' = decision
  <2> USE <1>1 DEF BaseInv, TypeOK, RequestTypeOK, requestVars, decideVars
  <2>1. ASSUME NEW r \in Runners, RunStep(r) \/ Fault(r)
        PROVE  UNCHANGED decideVars
    BY <2>1 DEF RunStep, LookUpTask, CreateTask, ReadTask, FindPullRequest, ForceRecover,
       Reread, Check, WriteState, LogState, Plan, RequestApproval, FindApproval, Code,
       VerificationGate, FixCode, Push, OpenPullRequest, RecordPullRequest, Announce,
       End, Fault, Throw, OnlyRunner
  <2>2. ASSUME NEW i \in Deciders, DecideStep(i)
        PROVE  decide'[d] \in {"decided", "answered", "unsent"} /\ decision' = decision
    BY <2>2 DEF DecideStep, DecideFind, DecideUpdate, DecideEnqueue
  <2>3. ASSUME \/ \E j \in Jobs : StartJob(j)
               \/ \E c \in Cancellers : CancelStep(c)
               \/ WorkerCrash \/ Boot \/ UNCHANGED vars
        PROVE  UNCHANGED decideVars
    BY <2>3 DEF StartJob, CancelStep, CancelRead, CancelCheck, CancelWrite, CancelLog,
       WorkerCrash, Boot, vars
  <2>4. CASE ApiCrash
    BY <2>4 DEF ApiCrash
  <2>5. QED
    BY <2>1, <2>2, <2>3, <2>4 DEF Next
<1>3. QED
    BY <1>1, <1>2 DEF Consent

LEMMA ApprovalStep ==
  ASSUME BaseInv, ApprovalInv, [Next]_vars
  PROVE  ApprovalInv'
<1> USE PipelineAssumption
    DEF ApprovalInv, AtMostOnePlanApproval, EarlyStates, NoTask, Early, Asking, AtEdge, InProgress, BaseInv, EdgeInv, StepOK, TypeOK, TaskTypeOK, RunnerTypeOK, Goto, OnlyRunner,
        taskVars, runnerVars, Edges, RecoveryEdges
<1>1. ASSUME NEW r \in Runners, LookUpTask(r) PROVE ApprovalInv'
    BY <1>1 DEF LookUpTask
<1>2. ASSUME NEW r \in Runners, CreateTask(r) PROVE ApprovalInv'
  <2>1. pc[r] # "idle" /\ approvals = <<>>
    BY <1>2 DEF CreateTask
  <2>2. \A q \in Runners : q # r => pc[q] = "idle"
    BY <2>1, OneRunner
  <2>3. QED
    BY <1>2, <2>1, <2>2 DEF CreateTask
<1>3. ASSUME NEW r \in Runners, ReadTask(r) PROVE ApprovalInv'
    BY <1>3 DEF ReadTask, Drive
<1>4. ASSUME NEW r \in Runners, FindPullRequest(r) PROVE ApprovalInv'
    BY <1>4 DEF FindPullRequest, RecoveryEdge
<1>5. ASSUME NEW r \in Runners, ForceRecover(r) PROVE ApprovalInv'
  <2>1. UNCHANGED <<state, approvals>>
    BY <1>5 DEF ForceRecover
  <2>2. \A q \in Runners : q # r => pc'[q] = pc[q] /\ edge'[q] = edge[q]
    BY <1>5 DEF ForceRecover
  <2>3. pc[r] = "force" /\ (pc'[r] = "recovered" \/ (pc'[r] = "write" /\ edge'[r] = edge[r]))
    BY <1>5 DEF ForceRecover
  <2>4. edge[r] \in RecoveryEdges
    BY <2>3
  <2>5. QED
    BY <2>1, <2>2, <2>3, <2>4
<1>6. ASSUME NEW r \in Runners, Reread(r) PROVE ApprovalInv'
  <2>1. UNCHANGED <<state, approvals>>
    BY <1>6 DEF Reread
  <2>2. \A q \in Runners : q # r => pc'[q] = pc[q] /\ edge'[q] = edge[q]
    BY <1>6 DEF Reread, Drive
  <2>3. \/ pc'[r] \in {"findApproval", "end"}
        \/ pc'[r] = "check" /\ edge'[r] = "analyze" /\ state = "CREATED"
        \/ pc'[r] = "check" /\ edge'[r] = "await" /\ state = "PLANNED"
    BY <1>6 DEF Reread, Drive
  <2>4. approvals # <<>> => state # "CREATED" /\ state # "PLANNED"
    OBVIOUS
  <2>5. QED
    BY <2>1, <2>2, <2>3, <2>4
<1>7. ASSUME NEW r \in Runners, Check(r) PROVE ApprovalInv'
  <2>1. UNCHANGED <<state, approvals>>
    BY <1>7 DEF Check, Throw
  <2>2. \A q \in Runners : q # r => pc'[q] = pc[q] /\ edge'[q] = edge[q]
    BY <1>7 DEF Check, Throw
  <2>3. pc[r] = "check" /\ (pc'[r] = "idle" \/ (pc'[r] = "write" /\ edge'[r] = edge[r]))
    BY <1>7 DEF Check, Throw
  <2>4. QED
    BY <2>1, <2>2, <2>3
<1>8. ASSUME NEW r \in Runners, WriteState(r) PROVE ApprovalInv'
  <2>1. CASE approvals = <<>>
    <3>1. \A q \in Runners : q # r => pc[q] = "idle"
      BY <1>8, <2>1, OneRunner DEF WriteState
    <3>2. QED
      BY <1>8, <2>1, <3>1 DEF WriteState, To, RecoveryTarget
  <2>2. CASE approvals # <<>>
    BY <1>8, <2>2 DEF WriteState, To, RecoveryTarget
  <2>3. QED
    BY <2>1, <2>2
<1>9. ASSUME NEW r \in Runners, LogState(r) PROVE ApprovalInv'
    BY <1>9 DEF LogState, Then, To, RecoveryTarget
<1>10. ASSUME NEW r \in Runners, Plan(r) PROVE ApprovalInv'
    BY SMTT(30), <1>10 DEF Plan
<1>11. ASSUME NEW r \in Runners, RequestApproval(r) PROVE ApprovalInv'
  <2>1. pc[r] # "idle" /\ approvals = <<>> /\ state \notin EarlyStates
    BY <1>11 DEF RequestApproval
  <2>2. \A q \in Runners : q # r => pc[q] = "idle"
    BY <2>1, OneRunner
  <2>3. Len(approvals') = 1
    BY <1>11, <2>1 DEF RequestApproval
  <2>4. QED
    BY <1>11, <2>1, <2>2, <2>3 DEF RequestApproval
<1>12. ASSUME NEW r \in Runners, FindApproval(r) PROVE ApprovalInv'
  <2>1. UNCHANGED <<state, approvals>>
    BY <1>12 DEF FindApproval
  <2>2. \A q \in Runners : q # r => pc'[q] = pc[q] /\ edge'[q] = edge[q]
    BY <1>12 DEF FindApproval, Throw
  <2>3. pc'[r] \in {"idle", "end"} \/ (pc'[r] = "check" /\ edge'[r] \in {"implement", "deny"})
    BY <1>12 DEF FindApproval, Throw
  <2>4. QED
    BY <2>1, <2>2, <2>3
<1>13. ASSUME NEW r \in Runners, Code(r) PROVE ApprovalInv'
    BY <1>13 DEF Code
<1>14. ASSUME NEW r \in Runners, VerificationGate(r) PROVE ApprovalInv'
  <2>1. UNCHANGED <<state, approvals>>
    BY <1>14 DEF VerificationGate
  <2>2. \A q \in Runners : q # r => pc'[q] = pc[q] /\ edge'[q] = edge[q]
    BY <1>14 DEF VerificationGate
  <2>3. pc'[r] = "check" /\ edge'[r] \in {"review", "fix", "blockTesting"}
    BY <1>14 DEF VerificationGate
  <2>4. QED
    BY <2>1, <2>2, <2>3
<1>15. ASSUME NEW r \in Runners, FixCode(r) PROVE ApprovalInv'
  <2>1. UNCHANGED <<state, approvals>>
    BY <1>15 DEF FixCode
  <2>2. \A q \in Runners : q # r => pc'[q] = pc[q] /\ edge'[q] = edge[q]
    BY <1>15 DEF FixCode
  <2>3. pc'[r] = "check" /\ edge'[r] \in {"retest", "blockFixing"}
    BY <1>15 DEF FixCode
  <2>4. QED
    BY <2>1, <2>2, <2>3
<1>16. ASSUME NEW r \in Runners, Push(r) PROVE ApprovalInv'
  <2>1. UNCHANGED <<state, approvals>>
    BY <1>16 DEF Push
  <2>2. \A q \in Runners : q # r => pc'[q] = pc[q] /\ edge'[q] = edge[q]
    BY <1>16 DEF Push
  <2>3. pc'[r] = "openPr" \/ (pc'[r] = "check" /\ edge'[r] = "blockReview")
    BY <1>16 DEF Push
  <2>4. QED
    BY <2>1, <2>2, <2>3
<1>17. ASSUME NEW r \in Runners, OpenPullRequest(r) PROVE ApprovalInv'
  <2>1. UNCHANGED <<state, approvals>>
    BY <1>17 DEF OpenPullRequest
  <2>2. \A q \in Runners : q # r => pc'[q] = pc[q] /\ edge'[q] = edge[q]
    BY <1>17 DEF OpenPullRequest
  <2>3. pc'[r] = "recordPr" \/ (pc'[r] = "check" /\ edge'[r] = "blockReview")
    BY <1>17 DEF OpenPullRequest
  <2>4. QED
    BY SMTT(20), <2>1, <2>2, <2>3
<1>18. ASSUME NEW r \in Runners, RecordPullRequest(r) PROVE ApprovalInv'
  <2>1. UNCHANGED <<state, approvals>>
    BY <1>18 DEF RecordPullRequest, Throw
  <2>2. \A q \in Runners : q # r => pc'[q] = pc[q] /\ edge'[q] = edge[q]
    BY <1>18 DEF RecordPullRequest, Throw
  <2>3. pc'[r] = "idle" \/ (pc'[r] = "check" /\ edge'[r] = "prCreated")
    BY <1>18 DEF RecordPullRequest, Throw
  <2>4. QED
    BY <2>1, <2>2, <2>3
<1>19. ASSUME NEW r \in Runners, Announce(r) PROVE ApprovalInv'
    BY <1>19 DEF Announce
<1>20. ASSUME NEW r \in Runners, End(r) PROVE ApprovalInv'
    BY <1>20 DEF End
<1>21. ASSUME NEW r \in Runners, Fault(r) PROVE ApprovalInv'
    BY <1>21 DEF Fault, Throw
<1>22. ASSUME NEW j \in Jobs, StartJob(j) PROVE ApprovalInv'
    BY <1>22 DEF StartJob
<1>23. ASSUME NEW d \in Deciders, DecideFind(d) PROVE ApprovalInv'
    BY <1>23 DEF DecideFind
<1>24. ASSUME NEW d \in Deciders, DecideUpdate(d) PROVE ApprovalInv'
    BY <1>24 DEF DecideUpdate
<1>25. ASSUME NEW d \in Deciders, DecideEnqueue(d) PROVE ApprovalInv'
    BY <1>25 DEF DecideEnqueue
<1>26. ASSUME NEW c \in Cancellers, CancelRead(c) PROVE ApprovalInv'
    BY <1>26 DEF CancelRead
<1>27. ASSUME NEW c \in Cancellers, CancelCheck(c) PROVE ApprovalInv'
    BY <1>27 DEF CancelCheck
<1>28. ASSUME NEW c \in Cancellers, CancelWrite(c) PROVE ApprovalInv'
    BY <1>28 DEF CancelWrite
<1>29. ASSUME NEW c \in Cancellers, CancelLog(c) PROVE ApprovalInv'
    BY <1>29 DEF CancelLog
<1>30. ASSUME WorkerCrash PROVE ApprovalInv'
    BY <1>30 DEF WorkerCrash
<1>31. ASSUME Boot PROVE ApprovalInv'
  <2>1. UNCHANGED <<state, approvals>>
    BY <1>31 DEF Boot
  <2>2. \A q \in Runners : pc'[q] = "read" \/ (pc'[q] = pc[q] /\ edge'[q] = edge[q])
    BY <1>31 DEF Boot
  <2>3. QED
    BY SMTT(20), <2>1, <2>2
<1>32. ASSUME ApiCrash PROVE ApprovalInv'
    BY <1>32 DEF ApiCrash
<1>33. CASE UNCHANGED vars
    BY SMTT(20), <1>33 DEF vars
<1>34. QED
    BY <1>1, <1>2, <1>3, <1>4, <1>5, <1>6, <1>7, <1>8, <1>9, <1>10, <1>11,
       <1>12, <1>13, <1>14, <1>15, <1>16, <1>17, <1>18, <1>19, <1>20, <1>21,
       <1>22, <1>23, <1>24, <1>25, <1>26, <1>27, <1>28, <1>29, <1>30, <1>31,
       <1>32, <1>33 DEF Next, RunStep, DecideStep, CancelStep

LEMMA ConsentStep ==
  ASSUME BaseInv, ConsentInv, [Next]_vars
  PROVE  ConsentInv'
<1> USE PipelineAssumption
    DEF ConsentInv, Implementing, ImplementationEdges, ImplementationPCs, AtEdge, InProgress, BaseInv, EdgeInv, StepOK, TypeOK, TaskTypeOK, RunnerTypeOK, Goto, OnlyRunner,
        taskVars, runnerVars, Edges, RecoveryEdges
<1> USE ConsentStays
<1>1. ASSUME NEW r \in Runners, LookUpTask(r) PROVE ConsentInv'
    BY <1>1 DEF LookUpTask
<1>2. ASSUME NEW r \in Runners, CreateTask(r) PROVE ConsentInv'
    BY <1>2 DEF CreateTask
<1>3. ASSUME NEW r \in Runners, ReadTask(r) PROVE ConsentInv'
    BY <1>3 DEF ReadTask, Drive
<1>4. ASSUME NEW r \in Runners, FindPullRequest(r) PROVE ConsentInv'
    BY <1>4 DEF FindPullRequest, RecoveryEdge
<1>5. ASSUME NEW r \in Runners, ForceRecover(r) PROVE ConsentInv'
    BY <1>5 DEF ForceRecover
<1>6. ASSUME NEW r \in Runners, Reread(r) PROVE ConsentInv'
    BY <1>6 DEF Reread, Drive
<1>7. ASSUME NEW r \in Runners, Check(r) PROVE ConsentInv'
  <2>1. CASE Goto(r, "write", edge[r]) /\ UNCHANGED taskVars
    BY <1>7, <2>1 DEF Check
  <2>2. CASE Throw(r)
    BY <1>7, <2>2 DEF Check, Throw
  <2>3. QED
    BY <1>7, <2>1, <2>2 DEF Check
<1>8. ASSUME NEW r \in Runners, WriteState(r) PROVE ConsentInv'
    BY SMTT(20), <1>8 DEF WriteState, To, RecoveryTarget
<1>9. ASSUME NEW r \in Runners, LogState(r) PROVE ConsentInv'
    BY SMTT(20), <1>9 DEF LogState, Then, To, RecoveryTarget
<1>10. ASSUME NEW r \in Runners, Plan(r) PROVE ConsentInv'
    BY <1>10 DEF Plan
<1>11. ASSUME NEW r \in Runners, RequestApproval(r) PROVE ConsentInv'
    BY <1>11 DEF RequestApproval
<1>12. ASSUME NEW r \in Runners, FindApproval(r) PROVE ConsentInv'
    BY <1>12 DEF FindApproval, Throw, PlanAccepted, PlanApproval
<1>13. ASSUME NEW r \in Runners, Code(r) PROVE ConsentInv'
    BY <1>13 DEF Code, MayOpenPullRequest
<1>14. ASSUME NEW r \in Runners, VerificationGate(r) PROVE ConsentInv'
    BY <1>14 DEF VerificationGate, FixAttemptsLeft, CountFixAttempt
<1>15. ASSUME NEW r \in Runners, FixCode(r) PROVE ConsentInv'
    BY <1>15 DEF FixCode, MayOpenPullRequest
<1>16. ASSUME NEW r \in Runners, Push(r) PROVE ConsentInv'
    BY <1>16 DEF Push
<1>17. ASSUME NEW r \in Runners, OpenPullRequest(r) PROVE ConsentInv'
    BY <1>17 DEF OpenPullRequest, MayOpenPullRequest
<1>18. ASSUME NEW r \in Runners, RecordPullRequest(r) PROVE ConsentInv'
    BY <1>18 DEF RecordPullRequest, Throw
<1>19. ASSUME NEW r \in Runners, Announce(r) PROVE ConsentInv'
    BY <1>19 DEF Announce
<1>20. ASSUME NEW r \in Runners, End(r) PROVE ConsentInv'
    BY <1>20 DEF End
<1>21. ASSUME NEW r \in Runners, Fault(r) PROVE ConsentInv'
    BY <1>21 DEF Fault, Throw
<1>22. ASSUME NEW j \in Jobs, StartJob(j) PROVE ConsentInv'
    BY <1>22 DEF StartJob
<1>23. ASSUME NEW d \in Deciders, DecideFind(d) PROVE ConsentInv'
    BY <1>23 DEF DecideFind
<1>24. ASSUME NEW d \in Deciders, DecideUpdate(d) PROVE ConsentInv'
  <2>1. target[d] \in 1..Len(approvals) /\ Len(approvals') = Len(approvals)
    BY <1>24 DEF DecideUpdate, SlotInv
  <2>2. decision[d] = "approved" => Consent'
    BY <1>24 DEF DecideUpdate, Consent, RequestTypeOK
  <2>3. \A i \in 1..Len(approvals) : approvals'[i] = approvals[i] \/ approvals'[i] = decision[d]
    BY <1>24, <2>1 DEF DecideUpdate
  <2>4. \A i \in 1..Len(approvals') :
          ~AutoApprovePlans /\ approvals'[i] = "approved" => Consent'
    BY <2>1, <2>2, <2>3
  <2>5. QED
    BY <1>24, <2>4 DEF DecideUpdate
<1>25. ASSUME NEW d \in Deciders, DecideEnqueue(d) PROVE ConsentInv'
    BY <1>25 DEF DecideEnqueue
<1>26. ASSUME NEW c \in Cancellers, CancelRead(c) PROVE ConsentInv'
    BY <1>26 DEF CancelRead
<1>27. ASSUME NEW c \in Cancellers, CancelCheck(c) PROVE ConsentInv'
    BY <1>27 DEF CancelCheck
<1>28. ASSUME NEW c \in Cancellers, CancelWrite(c) PROVE ConsentInv'
    BY <1>28 DEF CancelWrite
<1>29. ASSUME NEW c \in Cancellers, CancelLog(c) PROVE ConsentInv'
    BY <1>29 DEF CancelLog
<1>30. ASSUME WorkerCrash PROVE ConsentInv'
    BY <1>30 DEF WorkerCrash
<1>31. ASSUME Boot PROVE ConsentInv'
    BY <1>31 DEF Boot
<1>32. ASSUME ApiCrash PROVE ConsentInv'
    BY <1>32 DEF ApiCrash
<1>33. CASE UNCHANGED vars
    BY <1>33 DEF vars
<1>34. QED
    BY <1>1, <1>2, <1>3, <1>4, <1>5, <1>6, <1>7, <1>8, <1>9, <1>10, <1>11,
       <1>12, <1>13, <1>14, <1>15, <1>16, <1>17, <1>18, <1>19, <1>20, <1>21,
       <1>22, <1>23, <1>24, <1>25, <1>26, <1>27, <1>28, <1>29, <1>30, <1>31,
       <1>32, <1>33 DEF Next, RunStep, DecideStep, CancelStep

-----------------------------------------------------------------------------
(* The inductive invariant and what follows from it.                       *)

IInv == BaseInv /\ PlanInv /\ PullRequestInv /\ ApprovalInv /\ ConsentInv

LEMMA InvInit == Init => IInv
<1> SUFFICES ASSUME Init PROVE IInv
    OBVIOUS
<1>1. BaseInv
    BY BaseInit
<1>2. PlanInv
    BY DEF Init, PlanInv, PlanBeforeWork, Planned, AtEdge, ImplementationPCs, InProgress, NoTask
<1>3. PullRequestInv
    BY DEF Init, PullRequestInv, ReviewHasPullRequest, Recorded, AtEdge, NoTask
<1>4. ApprovalInv
    BY DEF Init, ApprovalInv, AtMostOnePlanApproval, Asking
<1>5. ConsentInv
    BY DEF Init, ConsentInv, Implementing, ImplementationPCs, AtEdge, InProgress, NoTask
<1>6. QED
    BY <1>1, <1>2, <1>3, <1>4, <1>5 DEF IInv

\* The invariant behind every theorem below.
THEOREM Invariance == Spec => []IInv
<1>1. Init => IInv
    BY InvInit
<1>2. IInv /\ [Next]_vars => IInv'
    BY BaseStep, PlanStep, PullRequestStep, ApprovalStep, ConsentStep DEF IInv
<1>3. QED
    BY <1>1, <1>2, PTL DEF Spec

\* Rows, steps and jobs stay in their domains; fix rounds, attempts and stalls
\* stay within their budgets.
THEOREM TypeCorrect == Spec => []TypeOK
<1>1. IInv => TypeOK
    BY DEF IInv, BaseInv
<1>2. QED
    BY <1>1, Invariance, PTL

\* Whatever cancels, crashes or races, a task in review has its pull request.
THEOREM ReviewIsBacked == Spec => []ReviewHasPullRequest
<1>1. IInv => ReviewHasPullRequest
    BY DEF IInv, PullRequestInv
<1>2. QED
    BY <1>1, Invariance, PTL

\* The Implementation Agent never starts from a task without a plan.
THEOREM PlanIsThere == Spec => []PlanBeforeWork
<1>1. IInv => PlanBeforeWork
    BY DEF IInv, PlanInv
<1>2. QED
    BY <1>1, Invariance, PTL

\* "A task only ever has one" plan approval.
THEOREM OneApproval == Spec => []AtMostOnePlanApproval
<1>1. IInv => AtMostOnePlanApproval
    BY DEF IInv, ApprovalInv
<1>2. QED
    BY <1>1, Invariance, PTL

\* With auto-approval off, a person approves before anything is implemented.
THEOREM ConsentComesFirst == Spec => []ImplementationNeedsConsent
<1>1. IInv => ImplementationNeedsConsent
    BY DEF IInv, ConsentInv, ImplementationNeedsConsent
<1>2. QED
    BY <1>1, Invariance, PTL

-----------------------------------------------------------------------------
(* Part 4: somebody always has the task in hand.                           *)

\* The states in which a run that is about to do step p takes the task on from there.
StatesAhead(p) ==
    CASE p = "recovered" -> {"CREATED", "PLANNED", "AWAITING_APPROVAL"}
      [] p = "planDone"  -> {"PLANNED", "AWAITING_APPROVAL"}
      [] p \in {"requestApproval", "approvalRequested"} -> {"AWAITING_APPROVAL"}
      [] p = "read"             -> TaskStates
      [] p \in {"idle", "end"} -> {}
      [] OTHER                 -> TaskStates \cup {NoTask}

Decided == PlanApproval \in {"approved", "denied"}

\* Runner r will take the task on, or throw.
Continues(r) ==
    /\ state \in StatesAhead(IF pc[r] = "log" THEN Then(edge[r]) ELSE pc[r])
    /\ pc[r] = "findApproval" => AutoApprovePlans \/ Decided

\* BullMQ still has job j to hand out, or has reported it as failed.
Pending(j) == job[j] \in {"waiting", "failed"}

StartStates == {NoTask, "CREATED", "ANALYZING"}
HeldStates == {"PLANNED", "AWAITING_APPROVAL"} \cup InProgress

\* Up to ANALYZING the task is the trigger job's.
StartInv ==
    /\ state # "PAUSED"
    /\ \A r \in Runners : pc[r] \in {"lookup", "create"} => r = "trigger"
    /\ state \in StartStates => Pending("trigger") \/ Continues("trigger")
    /\ AtEdge("boot", {"replan", "analyze"}) => Pending("trigger")

\* The task waits for a decision nobody has acted on.
Waits == state = "AWAITING_APPROVAL" /\ ~AutoApprovePlans
         /\ \A d \in Deciders : decide[d] # "answered"

\* From PLANNED on a job, a run or the next boot has it, until it waits for a decision.
HeldInv ==
    state \in HeldStates =>
      \/ \E j \in Jobs : Pending(j)
      \/ bootFailed \/ worker = "down"
      \/ \E r \in Runners : Continues(r)
      \/ Waits

HasDecided(d) == decide[d] \in {"decided", "answered", "unsent"}

\* The approval row says "pending" until a request decides, and not after.
DecisionInv ==
    /\ \A i \in 1..Len(approvals) : approvals[i] # "pending" => \E d \in Deciders : HasDecided(d)
    /\ (\E d \in Deciders : HasDecided(d)) => Decided

\* Unless something broke, a task that awaits approval has its row or a run about to
\* create it; a task is taken back to AWAITING_APPROVAL only if it has one.
AskInv ==
    ~AutoApprovePlans =>
      /\ \A r \in Runners : pc[r] = "findPr" \/ AtEdge(r, {"reimplement"}) => approvals # <<>>
      /\ state = "AWAITING_APPROVAL" /\ approvals = <<>> /\ crashes + faults = 0 =>
           \E r \in Runners : Asking(r)

ProgressInv == StartInv /\ HeldInv

\* Only these steps touch the approval row or a decide request.
LEMMA ApprovalFrame ==
  ASSUME [Next]_vars
  PROVE  \/ UNCHANGED <<approvals, decideVars>>
         \/ \E r \in Runners : RequestApproval(r)
         \/ \E d \in Deciders : DecideStep(d)
         \/ ApiCrash
<1> USE DEF requestVars, decideVars
<1>1. ASSUME NEW r \in Runners, RunStep(r) \/ Fault(r)
      PROVE  UNCHANGED <<approvals, decideVars>> \/ RequestApproval(r)
  BY <1>1 DEF RunStep, LookUpTask, CreateTask, ReadTask, FindPullRequest, ForceRecover,
     Reread, Check, WriteState, LogState, Plan, FindApproval, Code, VerificationGate,
     FixCode, Push, OpenPullRequest, RecordPullRequest, Announce, End, Fault, Throw,
     OnlyRunner, taskVars
<1>2. ASSUME \/ \E j \in Jobs : StartJob(j)
             \/ \E c \in Cancellers : CancelStep(c)
             \/ WorkerCrash \/ Boot \/ UNCHANGED vars
      PROVE  UNCHANGED <<approvals, decideVars>>
  BY <1>2 DEF StartJob, CancelStep, CancelRead, CancelCheck, CancelWrite, CancelLog,
     WorkerCrash, Boot, vars, taskVars
<1>3. QED
  BY <1>1, <1>2 DEF Next

\* A sequence of at most one element.
LEMMA AtMostOne == \A n \in Nat : \A t \in 1..n : n <= 1 => n = 1 /\ t = 1
  OBVIOUS
LEMMA NotEmpty == ASSUME NEW s, Len(s) = 1 PROVE s # <<>>
  OBVIOUS

LEMMA DecisionStep ==
  ASSUME BaseInv, ApprovalInv, DecisionInv, [Next]_vars
  PROVE  DecisionInv'
<1>1. /\ approvals \in Seq({"pending", "approved", "denied"})
      /\ Len(approvals) \in Nat /\ Len(approvals) <= 1
      /\ decide \in [Deciders -> {"idle", "found", "refused", "decided", "answered", "unsent"}]
      /\ decision \in [Deciders -> {"approved", "denied"}]
  BY DEF BaseInv, TypeOK, TaskTypeOK, RequestTypeOK, ApprovalInv, AtMostOnePlanApproval
<1>2. ASSUME UNCHANGED approvals, \A d \in Deciders : HasDecided(d)' <=> HasDecided(d)
      PROVE  DecisionInv'
  BY <1>2 DEF DecisionInv, Decided, PlanApproval
<1>3. ASSUME NEW r \in Runners, RequestApproval(r) PROVE DecisionInv'
  <2>1. approvals = <<>>
    BY <1>3 DEF RequestApproval, ApprovalInv, Early
  <2>2. approvals' = <<"pending">> /\ UNCHANGED decide
    BY <1>3, <2>1 DEF RequestApproval, OnlyRunner, requestVars, decideVars
  <2>3. \A d \in Deciders : decide[d] = "idle"
    <3>1. Len(approvals) = 0
      BY <2>1
    <3>2. QED
      BY <3>1 DEF BaseInv, SlotInv
  <2>4. QED
    BY <2>2, <2>3 DEF DecisionInv, HasDecided
<1>4. ASSUME NEW d \in Deciders, DecideFind(d) PROVE DecisionInv'
  BY <1>1, <1>2, <1>4 DEF DecideFind, taskVars, HasDecided
<1>5. ASSUME NEW d \in Deciders, DecideUpdate(d) PROVE DecisionInv'
  <2>1. target[d] \in 1..Len(approvals)
    BY <1>5 DEF DecideUpdate, BaseInv, SlotInv
  <2>2. Len(approvals) = 1 /\ target[d] = 1
    BY <1>1, <2>1, AtMostOne
  <2>3. Len(approvals') = 1 /\ approvals'[1] = decision[d]
    BY <1>1, <1>5, <2>2 DEF DecideUpdate
  <2>4. HasDecided(d)'
    BY <1>1, <1>5 DEF DecideUpdate, HasDecided
  <2>5. approvals' # <<>> /\ decision[d] \in {"approved", "denied"}
    BY <1>1, <2>3, NotEmpty
  <2>6. Decided'
    BY <2>3, <2>5 DEF Decided, PlanApproval
  <2>7. QED
    BY <2>3, <2>4, <2>6 DEF DecisionInv
<1>6. ASSUME NEW d \in Deciders, DecideEnqueue(d) PROVE DecisionInv'
  BY <1>1, <1>2, <1>6 DEF DecideEnqueue, taskVars, HasDecided
<1>7. CASE ApiCrash
  BY <1>1, <1>2, <1>7 DEF ApiCrash, taskVars, HasDecided
<1>8. CASE UNCHANGED <<approvals, decideVars>>
  BY <1>2, <1>8 DEF decideVars, HasDecided
<1>9. QED
  BY <1>3, <1>4, <1>5, <1>6, <1>7, <1>8, ApprovalFrame DEF DecideStep

\* A runner that goes on and leaves the state alone keeps the task in hand, or leaves it
\* where nobody has to have it.
LEMMA GoOn ==
  ASSUME BaseInv, StartInv, HeldInv, NEW r \in Runners, pc[r] # "idle", NEW p, NEW e,
         pc' = [pc EXCEPT ![r] = p], edge' = [edge EXCEPT ![r] = e], OnlyRunner,
         UNCHANGED state, Decided => Decided',
         p # "lookup", p = "create" => r = "trigger",
         p \in {"force", "check", "write", "log"} /\ e \in {"replan", "analyze"} =>
           AtEdge(r, {"replan", "analyze"}) \/ state \in StartStates,
         Continues(r) => \/ Continues(r)' \/ Waits \/ state \notin StartStates \cup HeldStates
  PROVE  StartInv' /\ HeldInv'
<1> USE DEF BaseInv, TypeOK, RunnerTypeOK, JobTypeOK, OnlyRunner, requestVars, decideVars,
            jobVars, workerVars
<1>1. /\ pc \in [Runners -> PCs] /\ edge \in [Runners -> Edges \cup {"none"}]
      /\ UNCHANGED <<job, worker, bootFailed, decide>>
    OBVIOUS
<1>2. \A q \in Runners : q # r => (Continues(q) => Continues(q)')
    BY <1>1 DEF Continues
<1>3. \A j \in Jobs : Pending(j)' <=> Pending(j)
    BY <1>1 DEF Pending
<1>4. Waits' <=> Waits
    BY <1>1 DEF Waits
<1>5. StartInv'
  <2>1. "trigger" \in Jobs /\ "trigger" \in Runners /\ "boot" \in Runners
    BY DEF Jobs, Runners
  <2>2. state \in StartStates => ~Waits
    BY DEF StartStates, Waits, NoTask
  <2>3. (state \in StartStates => Pending("trigger") \/ Continues("trigger"))'
    BY <1>1, <1>2, <1>3, <2>1, <2>2 DEF StartInv
  <2>4. AtEdge("boot", {"replan", "analyze"})' => Pending("trigger")'
    <3>1. CASE r # "boot"
      BY <1>1, <1>3, <2>1, <3>1 DEF StartInv, AtEdge
    <3>2. CASE r = "boot"
      <4>1. worker = "booting"
        BY <3>2, PipelineAssumption DEF SlotInv, RunnerHeld, Jobs
      <4>2. pc["trigger"] = "idle"
        BY <4>1, <2>1 DEF SlotInv, RunnerHeld
      <4>3. ~Continues("trigger")
        BY <4>2 DEF Continues, StatesAhead
      <4>4. state \in StartStates => Pending("trigger")
        BY <4>3 DEF StartInv
      <4>5. AtEdge("boot", {"replan", "analyze"})' =>
              AtEdge("boot", {"replan", "analyze"}) \/ state \in StartStates
        BY <1>1, <2>1, <3>2 DEF AtEdge
      <4>6. QED
        BY <4>4, <4>5, <1>3, <2>1 DEF StartInv
    <3>3. QED
      BY <3>1, <3>2
  <2>5. QED
    BY <1>1, <2>3, <2>4 DEF StartInv
<1>6. HeldInv'
    BY <1>1, <1>2, <1>3, <1>4 DEF HeldInv
<1>7. QED
    BY <1>5, <1>6

\* A run that throws hands the task back to its job, or to the log of the startup loop.
LEMMA ThrowHandsBack ==
  ASSUME BaseInv, StartInv, HeldInv, ApprovalInv, NEW r \in Runners, pc[r] # "idle", Throw(r)
  PROVE  StartInv' /\ HeldInv'
<1> USE DEF BaseInv, TypeOK, RunnerTypeOK, JobTypeOK, requestVars, decideVars,
            jobVars, workerVars, taskVars, Throw
<1>1. /\ pc' = [pc EXCEPT ![r] = "idle"] /\ edge' = [edge EXCEPT ![r] = "none"]
      /\ pc \in [Runners -> PCs] /\ edge \in [Runners -> Edges \cup {"none"}]
      /\ UNCHANGED <<state, approvals, decide>>
    OBVIOUS
<1>2. \A q \in Runners : q # r => (Continues(q)' <=> Continues(q))
    BY <1>1 DEF Continues, Decided, PlanApproval
<1>3. r # "boot" => r \in Jobs /\ Pending(r)'
  <2>1. r # "boot" => r \in Jobs
    BY DEF Runners
  <2>2. QED
    BY <2>1 DEF Pending
<1>4. \A j \in Jobs : Pending(j) => Pending(j)'
    BY DEF Pending
<1>5. r = "boot" => bootFailed'
    OBVIOUS
<1>6. "trigger" \in Jobs /\ "trigger" \in Runners /\ "boot" \in Runners /\ "boot" # "trigger"
    BY DEF Jobs, Runners
<1>7. StartInv'
  <2>1. (state \in StartStates => Pending("trigger") \/ Continues("trigger"))'
    BY <1>1, <1>2, <1>3, <1>4, <1>6 DEF StartInv
  <2>2. AtEdge("boot", {"replan", "analyze"})' => Pending("trigger")'
    BY <1>1, <1>4, <1>6 DEF StartInv, AtEdge
  <2>3. QED
    BY <1>1, <2>1, <2>2 DEF StartInv
<1>8. HeldInv'
  <2>1. CASE r = "boot"
    BY <2>1, <1>5 DEF HeldInv
  <2>2. CASE r # "boot"
    BY <2>2, <1>3 DEF HeldInv
  <2>3. QED
    BY <2>1, <2>2
<1>9. QED
    BY <1>7, <1>8
\* Every transition leads to a state its caller goes on from, or to an end.
LEMMA EdgesGoOn ==
  \A e \in Edges : /\ To(e) \in StatesAhead(Then(e)) \/ To(e) \notin StartStates \cup HeldStates
                   /\ To(e) # "PAUSED" /\ To(e) \in TaskStates
                   /\ To(e) \in StartStates => e \in {"replan", "analyze"}
                   /\ Then(e) \notin {"idle", "lookup", "create", "write", "log", "findApproval"}
<1> USE DEF Edges, RecoveryEdges, To, RecoveryTarget
<1>1. \A e \in Edges : To(e) # "PAUSED" /\ To(e) \in TaskStates
  BY DEF TaskStates, HappyStates, TerminalStates, AlwaysFromActive
<1>2. \A e \in Edges : To(e) \in StartStates => e \in {"replan", "analyze"}
  BY DEF StartStates, NoTask
<1>3. \A e \in Edges : Then(e) \notin {"idle", "lookup", "create", "write", "log", "findApproval"}
  BY DEF Then
<1>4. ASSUME NEW e \in Edges
      PROVE  To(e) \in StatesAhead(Then(e)) \/ To(e) \notin StartStates \cup HeldStates
  <2>1. CASE e \in RecoveryEdges
    BY <2>1 DEF Then, StatesAhead, StartStates, HeldStates, InProgress, NoTask
  <2>2. CASE e \in {"planned", "await", "planFailed", "deny", "handover",
                   "blockImplementing", "blockTesting", "blockFixing", "blockReview"}
    BY <2>2 DEF Then, StatesAhead, StartStates, HeldStates, InProgress, NoTask
  <2>3. CASE e \in {"analyze", "implement", "test", "retest", "fix", "review", "prCreated"}
    <3>1. Then(e) \in {"plan", "code", "gate", "fixCode", "push", "announce"}
      BY <2>3 DEF Then
    <3>2. StatesAhead(Then(e)) = TaskStates \cup {NoTask}
      BY <3>1 DEF StatesAhead
    <3>3. QED
      BY <1>1, <3>2
  <2>4. QED
    BY <2>1, <2>2, <2>3
<1>5. QED
  BY ZenonT(40), <1>1, <1>2, <1>3, <1>4

\* A task nobody has decided on waits, as long as it awaits approval.
LEMMA UndecidedWaits ==
  ASSUME DecisionInv, state = "AWAITING_APPROVAL", ~AutoApprovePlans, ~Decided
  PROVE  Waits
BY DEF DecisionInv, HasDecided, Waits

\* A resume job runs only for a task whose approval row exists.
LEMMA ResumeHasRow ==
  ASSUME BaseInv, NEW d \in Deciders, pc[d] # "idle"
  PROVE  approvals # <<>>
<1>1. d \in Runners /\ d # "boot"
  BY PipelineAssumption DEF Runners, Jobs
<1>2. job[d] = "active"
  BY <1>1 DEF BaseInv, SlotInv, RunnerHeld
<1>3. target[d] \in 1..Len(approvals)
  BY <1>2 DEF BaseInv, SlotInv
<1>4. QED
  <2>1. approvals = <<>> => Len(approvals) = 0
    OBVIOUS
  <2>2. QED
    BY <1>3, <2>1

LEMMA ProgressStep ==
  ASSUME BaseInv, ApprovalInv, DecisionInv, DecisionInv', ProgressInv, [Next]_vars
  PROVE  ProgressInv'
<1>. state \in TaskStates \cup {NoTask} /\ "trigger" \in Jobs /\ "trigger" \in Runners
  BY DEF BaseInv, TypeOK, TaskTypeOK, Jobs, Runners
<1> USE DEF ProgressInv
<1>1. ASSUME NEW r \in Runners, LookUpTask(r) PROVE ProgressInv'
  <2>1. r = "trigger"
    BY <1>1 DEF LookUpTask, StartInv
  <2>2. QED
    BY <1>1, <2>1, GoOn DEF LookUpTask, Goto, taskVars, Decided, PlanApproval, Continues,
       StatesAhead, BaseInv, TypeOK, RunnerTypeOK
<1>2. ASSUME NEW r \in Runners, CreateTask(r) PROVE ProgressInv'
  <2>1. r = "trigger" /\ state' = "CREATED"
    BY <1>2 DEF CreateTask, StartInv
  <2>2. Continues("trigger")'
    BY <1>2, <2>1 DEF CreateTask, Goto, Continues, StatesAhead, TaskStates, HappyStates, BaseInv,
       TypeOK, RunnerTypeOK
  <2>3. AtEdge("boot", {"replan", "analyze"})' => Pending("trigger")'
    BY <1>2, <2>1 DEF CreateTask, Goto, AtEdge, StartInv, Pending, OnlyRunner, jobVars, BaseInv,
       TypeOK, RunnerTypeOK
  <2>4. \A q \in Runners : pc'[q] \in {"lookup", "create"} => q = "trigger"
    BY <1>2, <2>1 DEF CreateTask, Goto, StartInv, BaseInv, TypeOK, RunnerTypeOK
  <2>5. StartInv'
    BY <2>1, <2>2, <2>3, <2>4 DEF StartInv
  <2>6. HeldInv'
    BY <2>1 DEF HeldInv, HeldStates, InProgress
  <2>7. QED
    BY <2>5, <2>6
<1>3. ASSUME NEW r \in Runners, ReadTask(r) PROVE ProgressInv'
  <2> USE <1>3
  <2>1. OnlyRunner /\ UNCHANGED taskVars /\ pc[r] = "read"
    BY DEF ReadTask
  <2>2. UNCHANGED state /\ (Decided => Decided') /\ pc \in [Runners -> PCs]
    BY <2>1 DEF taskVars, Decided, PlanApproval, BaseInv, TypeOK, RunnerTypeOK
  <2>3. CASE state = "ANALYZING" /\ Goto(r, "force", "replan")
    BY <2>1, <2>2, <2>3, GoOn DEF Goto, Continues, StatesAhead, StartStates
  <2>4. CASE Goto(r, "findPr", "none")
    BY <2>1, <2>2, <2>4, GoOn DEF Goto, Continues, StatesAhead
  <2>5. CASE state = "CREATED" /\ Goto(r, "check", "analyze")
    BY <2>1, <2>2, <2>5, GoOn DEF Goto, Continues, StatesAhead, StartStates
  <2>6. CASE Goto(r, "check", "await")
    BY <2>1, <2>2, <2>6, GoOn DEF Goto, Continues, StatesAhead
  <2>7. CASE state = "AWAITING_APPROVAL" /\ Goto(r, "findApproval", "none")
    <3>1. Continues(r)' \/ Waits
      BY <2>2, <2>7, UndecidedWaits DEF Goto, Continues, StatesAhead
    <3>2. QED
      BY <2>1, <2>2, <2>7, <3>1, GoOn DEF Goto
  <2>8. CASE state \notin InProgress \cup {"ANALYZING", "CREATED", "PLANNED", "AWAITING_APPROVAL"}
             /\ Goto(r, "end", "none")
    <3>1. Continues(r) => state \notin StartStates \cup HeldStates
      BY <2>1, <2>8 DEF Continues, StatesAhead, StartStates, HeldStates, TaskStates, HappyStates,
         TerminalStates, AlwaysFromActive, NoTask
    <3>2. QED
      BY <2>1, <2>2, <2>8, <3>1, GoOn DEF Goto
  <2>9. QED
    BY <2>3, <2>4, <2>5, <2>6, <2>7, <2>8 DEF ReadTask, Drive
<1>4. ASSUME NEW r \in Runners, FindPullRequest(r) PROVE ProgressInv'
  BY <1>4, GoOn DEF FindPullRequest, RecoveryEdge, Goto, taskVars, Decided, PlanApproval, Continues,
     StatesAhead, BaseInv, TypeOK, RunnerTypeOK
<1>5. ASSUME NEW r \in Runners, ForceRecover(r) PROVE ProgressInv'
  <2>1. OnlyRunner /\ UNCHANGED taskVars /\ pc[r] = "force" /\ edge[r] \in RecoveryEdges
    BY <1>5 DEF ForceRecover, BaseInv, EdgeInv, StepOK
  <2>2. UNCHANGED state /\ (Decided => Decided') /\ pc \in [Runners -> PCs]
    BY <2>1 DEF taskVars, Decided, PlanApproval, BaseInv, TypeOK, RunnerTypeOK
  <2>3. CASE state = To(edge[r]) /\ Goto(r, "recovered", "none")
    <3>1. Continues(r)' \/ state \notin StartStates \cup HeldStates
      BY <2>1, <2>2, <2>3 DEF Goto, Continues, StatesAhead, To, RecoveryTarget, RecoveryEdges,
         StartStates, HeldStates, InProgress, NoTask
    <3>2. QED
      BY <2>1, <2>2, <2>3, <3>1, GoOn DEF Goto
  <2>4. CASE Goto(r, "write", edge[r])
    BY <2>1, <2>2, <2>4, GoOn DEF Goto, Continues, StatesAhead, AtEdge
  <2>5. QED
    BY <1>5, <2>3, <2>4 DEF ForceRecover
<1>6. ASSUME NEW r \in Runners, Reread(r) PROVE ProgressInv'
  <2> USE <1>6
  <2>1. /\ OnlyRunner /\ UNCHANGED taskVars
        /\ pc[r] \in {"recovered", "planDone", "approvalRequested"}
    BY DEF Reread
  <2>2. UNCHANGED state /\ (Decided => Decided') /\ pc \in [Runners -> PCs]
    BY <2>1 DEF taskVars, Decided, PlanApproval, BaseInv, TypeOK, RunnerTypeOK
  <2>3. CASE state = "CREATED" /\ Goto(r, "check", "analyze")
    BY <2>1, <2>2, <2>3, GoOn DEF Goto, Continues, StatesAhead, StartStates
  <2>4. CASE Goto(r, "check", "await")
    BY <2>1, <2>2, <2>4, GoOn DEF Goto, Continues, StatesAhead
  <2>5. CASE state = "AWAITING_APPROVAL" /\ Goto(r, "findApproval", "none")
    <3>1. Continues(r)' \/ Waits
      BY <2>2, <2>5, UndecidedWaits DEF Goto, Continues, StatesAhead
    <3>2. QED
      BY <2>1, <2>2, <2>5, <3>1, GoOn DEF Goto
  <2>6. CASE ~Continues(r) /\ Goto(r, "end", "none")
    BY <2>1, <2>2, <2>6, GoOn DEF Goto
  <2>7. QED
    BY <2>3, <2>4, <2>5, <2>6 DEF Reread, Drive, Continues, StatesAhead
<1>7. ASSUME NEW r \in Runners, Check(r) PROVE ProgressInv'
  <2>1. CASE Goto(r, "write", edge[r]) /\ OnlyRunner /\ UNCHANGED taskVars
    BY <1>7, <2>1, GoOn DEF Check, Goto, taskVars, Decided, PlanApproval, Continues, StatesAhead,
       AtEdge, BaseInv, TypeOK, RunnerTypeOK
  <2>2. CASE Throw(r)
    BY <1>7, <2>2, ThrowHandsBack DEF Check
  <2>3. QED
    BY <1>7, <2>1, <2>2 DEF Check
<1>8. ASSUME NEW r \in Runners, WriteState(r) PROVE ProgressInv'
  <2>1. /\ pc[r] = "write" /\ edge[r] \in Edges /\ state' = To(edge[r])
        /\ pc' = [pc EXCEPT ![r] = "log"] /\ edge' = [edge EXCEPT ![r] = edge[r]]
        /\ pc \in [Runners -> PCs] /\ edge \in [Runners -> Edges \cup {"none"}]
        /\ UNCHANGED <<job, worker, bootFailed, approvals>>
    BY <1>8 DEF WriteState, Goto, OnlyRunner, workerVars, jobVars, BaseInv, EdgeInv, StepOK,
       TypeOK, RunnerTypeOK
  <2>2. Continues(r)' \/ state' \notin StartStates \cup HeldStates
    BY <2>1, EdgesGoOn DEF Continues
  <2>3. HeldInv'
    BY <2>2 DEF HeldInv
  <2>4. state' \in StartStates => Pending("trigger")' \/ Continues("trigger")'
    <3>1. SUFFICES ASSUME edge[r] \in {"replan", "analyze"}
                   PROVE  r = "trigger" \/ Pending("trigger")
      BY <2>1, <2>2, EdgesGoOn DEF Pending
    <3>2. approvals = <<>>
      BY <2>1, <3>1 DEF ApprovalInv, Early, AtEdge
    <3>3. r \notin Deciders
      BY <2>1, <3>2, ResumeHasRow
    <3>4. r = "boot" => Pending("trigger")
      BY <2>1, <3>1 DEF StartInv, AtEdge
    <3>5. QED
      BY <3>3, <3>4 DEF Runners, Jobs
  <2>5. AtEdge("boot", {"replan", "analyze"})' => Pending("trigger")'
    BY <2>1 DEF AtEdge, StartInv, Pending, Runners
  <2>6. StartInv'
    BY <2>1, <2>4, <2>5, EdgesGoOn DEF StartInv
  <2>7. QED
    BY <2>3, <2>6
<1>9. ASSUME NEW r \in Runners, LogState(r) PROVE ProgressInv'
  <2>1. pc[r] = "log" /\ edge[r] \in Edges /\ pc \in [Runners -> PCs]
    BY <1>9 DEF LogState, BaseInv, EdgeInv, StepOK, TypeOK, RunnerTypeOK
  <2>2. Continues(r) => Continues(r)'
    BY <1>9, <2>1, EdgesGoOn DEF LogState, Goto, Continues
  <2>3. QED
    BY <1>9, <2>1, <2>2, EdgesGoOn, GoOn DEF LogState, Goto, Decided, PlanApproval
<1>10. ASSUME NEW r \in Runners, Plan(r) PROVE ProgressInv'
  <2>1. PICK e \in {"planned", "planFailed"} : Goto(r, "check", e)
    BY <1>10 DEF Plan
  <2>2. QED
    BY <1>10, <2>1, GoOn DEF Plan, Goto, Decided, PlanApproval, Continues, StatesAhead,
       BaseInv, TypeOK, RunnerTypeOK
<1>11. ASSUME NEW r \in Runners, RequestApproval(r) PROVE ProgressInv'
  <2>1. ~Decided
    BY <1>11 DEF RequestApproval, ApprovalInv, Early, Decided, PlanApproval
  <2>2. QED
    BY <1>11, <2>1, GoOn DEF RequestApproval, Goto, Continues, StatesAhead, BaseInv, TypeOK,
       RunnerTypeOK
<1>12. ASSUME NEW r \in Runners, FindApproval(r) PROVE ProgressInv'
  <2>1. CASE Throw(r)
    BY <1>12, <2>1, ThrowHandsBack DEF FindApproval
  <2>2. CASE OnlyRunner /\ \E e \in {"implement", "deny"} : Goto(r, "check", e)
    BY <1>12, <2>2, GoOn DEF FindApproval, Goto, taskVars, Decided, PlanApproval, Continues,
       StatesAhead, BaseInv, TypeOK, RunnerTypeOK
  <2>3. CASE OnlyRunner /\ ~AutoApprovePlans /\ ~Decided /\ Goto(r, "end", "none")
    BY <1>12, <2>3, GoOn DEF FindApproval, Goto, taskVars, Continues
  <2>4. QED
    BY <1>12, <2>1, <2>2, <2>3 DEF FindApproval, Decided
<1>13. ASSUME NEW r \in Runners, Code(r) PROVE ProgressInv'
  BY <1>13, GoOn DEF Code, Goto, taskVars, Decided, PlanApproval, Continues, StatesAhead,
     BaseInv, TypeOK, RunnerTypeOK
<1>14. ASSUME NEW r \in Runners, VerificationGate(r) PROVE ProgressInv'
  <2>1. PICK e \in {"review", "fix", "blockTesting"} :
          pc' = [pc EXCEPT ![r] = "check"] /\ edge' = [edge EXCEPT ![r] = e]
    BY <1>14 DEF VerificationGate, Goto
  <2>2. QED
    BY <1>14, <2>1, GoOn DEF VerificationGate, taskVars, Decided, PlanApproval, Continues,
       StatesAhead, BaseInv, TypeOK, RunnerTypeOK
<1>15. ASSUME NEW r \in Runners, FixCode(r) PROVE ProgressInv'
  BY <1>15, GoOn DEF FixCode, Goto, taskVars, Decided, PlanApproval, Continues, StatesAhead,
     BaseInv, TypeOK, RunnerTypeOK
<1>16. ASSUME NEW r \in Runners, Push(r) PROVE ProgressInv'
  BY <1>16, GoOn DEF Push, Goto, taskVars, Decided, PlanApproval, Continues, StatesAhead,
     BaseInv, TypeOK, RunnerTypeOK
<1>17. ASSUME NEW r \in Runners, OpenPullRequest(r) PROVE ProgressInv'
  <2>1. PICK p \in {"recordPr", "check"}, e \in {"none", "blockReview"} : Goto(r, p, e)
    BY <1>17 DEF OpenPullRequest
  <2>2. QED
    BY <1>17, <2>1, GoOn DEF OpenPullRequest, Goto, Decided, PlanApproval, Continues,
       StatesAhead, BaseInv, TypeOK, RunnerTypeOK
<1>18. ASSUME NEW r \in Runners, RecordPullRequest(r) PROVE ProgressInv'
  <2>1. CASE Throw(r)
    BY <1>18, <2>1, ThrowHandsBack DEF RecordPullRequest
  <2>2. CASE /\ Goto(r, "check", "prCreated") /\ OnlyRunner
             /\ UNCHANGED <<state, plan, approvals, trail, githubPr>>
    BY <1>18, <2>2, GoOn DEF RecordPullRequest, Goto, Decided, PlanApproval, Continues,
       StatesAhead, BaseInv, TypeOK, RunnerTypeOK
  <2>3. QED
    BY <1>18, <2>1, <2>2 DEF RecordPullRequest
<1>19. ASSUME NEW r \in Runners, Announce(r) PROVE ProgressInv'
  BY <1>19, GoOn DEF Announce, Goto, taskVars, Decided, PlanApproval, Continues, StatesAhead,
     BaseInv, TypeOK, RunnerTypeOK
<1>20. ASSUME NEW r \in Runners, End(r) PROVE ProgressInv'
  <2>1. /\ pc' = [pc EXCEPT ![r] = "idle"] /\ UNCHANGED <<state, approvals, edge, decide, bootFailed>>
        /\ pc \in [Runners -> PCs] /\ pc[r] = "end"
    BY <1>20 DEF End, taskVars, requestVars, decideVars, BaseInv, TypeOK, RunnerTypeOK
  <2>2. \A j \in Jobs : Pending(j)' <=> Pending(j)
    <3>1. r # "boot" => job[r] = "active"
      BY <2>1 DEF BaseInv, SlotInv, RunnerHeld
    <3>2. QED
      BY <1>20, <3>1 DEF End, Pending, BaseInv, TypeOK, JobTypeOK
  <2>3. worker # "down"
    BY <2>1 DEF BaseInv, SlotInv, RunnerHeld
  <2>4. \A q \in Runners : Continues(q) => Continues(q)'
    BY <2>1 DEF Continues, StatesAhead, Decided, PlanApproval
  <2>5. Waits' <=> Waits
    BY <2>1 DEF Waits
  <2>6. AtEdge("boot", {"replan", "analyze"})' => AtEdge("boot", {"replan", "analyze"})
    BY <2>1 DEF AtEdge, Runners
  <2>7. StartInv'
    BY <2>1, <2>2, <2>4, <2>6 DEF StartInv
  <2>8. HeldInv'
    BY <2>1, <2>2, <2>3, <2>4, <2>5 DEF HeldInv
  <2>9. QED
    BY <2>7, <2>8
<1>21. ASSUME NEW r \in Runners, Fault(r) PROVE ProgressInv'
  BY <1>21, ThrowHandsBack DEF Fault
<1>22. ASSUME NEW j \in Jobs, StartJob(j) PROVE ProgressInv'
  <2>1. /\ pc' = [pc EXCEPT ![j] = IF j = "trigger" THEN "lookup" ELSE "read"]
        /\ edge' = [edge EXCEPT ![j] = "none"] /\ job' = [job EXCEPT ![j] = "active"]
        /\ worker = "serving" /\ job[j] = "waiting"
        /\ UNCHANGED <<state, approvals, worker, bootFailed, decide>>
        /\ pc \in [Runners -> PCs] /\ edge \in [Runners -> Edges \cup {"none"}]
        /\ job \in [Jobs -> {"none", "waiting", "active", "done", "failed"}] /\ j \in Runners
    BY <1>22 DEF StartJob, Goto, workerVars, taskVars, requestVars, decideVars, BaseInv, TypeOK,
       RunnerTypeOK, JobTypeOK, Runners
  <2>2. \A q \in Runners : q # j => (Continues(q) => Continues(q)')
    BY <2>1 DEF Continues, Decided, PlanApproval
  <2>3. \A i \in Jobs : i # j => (Pending(i) => Pending(i)')
    BY <2>1 DEF Pending
  <2>4. j = "trigger" \/ state # NoTask => Continues(j)'
    BY <2>1 DEF Continues, StatesAhead
  <2>5. pc["boot"] = "idle" /\ "boot" # j
    BY <2>1, PipelineAssumption DEF BaseInv, SlotInv, RunnerHeld, Runners, Jobs
  <2>6. StartInv'
    BY <2>1, <2>2, <2>3, <2>4, <2>5 DEF StartInv, AtEdge, Runners
  <2>7. Waits' <=> Waits
    BY <2>1 DEF Waits
  <2>8. HeldInv'
    <3>1. state \in HeldStates => Continues(j)'
      BY <2>4 DEF HeldStates, InProgress, NoTask
    <3>2. QED
      BY <2>1, <3>1 DEF HeldInv
  <2>9. QED
    BY <2>6, <2>8
<1>23. ASSUME UNCHANGED <<state, pc, edge, job, workerVars>>, Decided => Decided', Waits => Waits'
       PROVE  ProgressInv'
  <2>1. /\ \A q \in Runners : Continues(q) => Continues(q)'
        /\ \A i \in Jobs : Pending(i)' <=> Pending(i)
    BY <1>23 DEF Continues, Pending
  <2>2. AtEdge("boot", {"replan", "analyze"})' <=> AtEdge("boot", {"replan", "analyze"})
    BY <1>23 DEF AtEdge
  <2>3. StartInv' /\ HeldInv'
    BY <1>23, <2>1, <2>2 DEF StartInv, HeldInv, workerVars
  <2>4. QED
    BY <2>3
<1>24. ASSUME NEW d \in Deciders, DecideFind(d) PROVE ProgressInv'
  <2>1. Waits => Waits'
    BY <1>24 DEF DecideFind, Waits, taskVars, BaseInv, TypeOK, RequestTypeOK
  <2>2. QED
    BY <1>23, <1>24, <2>1 DEF DecideFind, taskVars, runnerVars, jobVars, Decided, PlanApproval
<1>25. ASSUME NEW d \in Deciders, DecideUpdate(d) PROVE ProgressInv'
  <2>1. Waits => Waits'
    BY <1>25 DEF DecideUpdate, Waits, BaseInv, TypeOK, RequestTypeOK
  <2>2. HasDecided(d)'
    BY <1>25 DEF DecideUpdate, HasDecided, BaseInv, TypeOK, RequestTypeOK
  <2>3. Decided'
    BY <2>2 DEF DecisionInv
  <2>4. QED
    BY <1>23, <1>25, <2>1, <2>3 DEF DecideUpdate, runnerVars, jobVars
<1>26. ASSUME NEW d \in Deciders, DecideEnqueue(d) PROVE ProgressInv'
  <2>1. /\ job' = [job EXCEPT ![d] = "waiting"] /\ job[d] = "none" /\ d \in Jobs
        /\ UNCHANGED <<state, approvals, pc, edge, workerVars>>
        /\ job \in [Jobs -> {"none", "waiting", "active", "done", "failed"}]
    BY <1>26 DEF DecideEnqueue, taskVars, runnerVars, BaseInv, SlotInv, TypeOK, JobTypeOK, Jobs
  <2>2. /\ \A q \in Runners : Continues(q) => Continues(q)'
        /\ \A i \in Jobs : Pending(i) => Pending(i)'
        /\ Pending(d)'
    BY <2>1 DEF Continues, Pending, Decided, PlanApproval
  <2>3. AtEdge("boot", {"replan", "analyze"})' <=> AtEdge("boot", {"replan", "analyze"})
    BY <2>1 DEF AtEdge
  <2>4. StartInv' /\ HeldInv'
    BY <2>1, <2>2, <2>3 DEF StartInv, HeldInv
  <2>5. QED
    BY <2>4
<1>27. ASSUME NEW c \in Cancellers, CancelRead(c) \/ CancelCheck(c) \/ CancelLog(c)
       PROVE  ProgressInv'
  BY <1>23, <1>27 DEF CancelRead, CancelCheck, CancelLog, taskVars, runnerVars, jobVars, decideVars,
     Decided, PlanApproval, Waits
<1>28. ASSUME NEW c \in Cancellers, CancelWrite(c) PROVE ProgressInv'
  <2>1. state' = "CANCELLED" /\ UNCHANGED <<pc, edge, job>>
    BY <1>28 DEF CancelWrite, runnerVars, jobVars
  <2>2. state' \notin StartStates \cup HeldStates /\ state' # "PAUSED"
    BY <2>1 DEF StartStates, HeldStates, InProgress, NoTask
  <2>3. AtEdge("boot", {"replan", "analyze"})' => Pending("trigger")'
    BY <2>1 DEF AtEdge, Pending, StartInv
  <2>4. StartInv' /\ HeldInv'
    BY <2>1, <2>2, <2>3 DEF StartInv, HeldInv
  <2>5. QED
    BY <2>4
<1>29. ASSUME WorkerCrash PROVE ProgressInv'
  <2>1. /\ worker' = "down" /\ pc' = [r \in Runners |-> "idle"] /\ UNCHANGED state
        /\ job' = [j \in Jobs |-> IF job[j] # "active" THEN job[j]
                                   ELSE IF stalls[j] < MaxStalls THEN "waiting" ELSE "failed"]
    BY <1>29 DEF WorkerCrash, taskVars
  <2>2. Continues("trigger") => job["trigger"] = "active"
    BY PipelineAssumption DEF Continues, StatesAhead, BaseInv, SlotInv, RunnerHeld
  <2>3. state \in StartStates => Pending("trigger")'
    BY <2>1, <2>2 DEF StartInv, Pending
  <2>4. StartInv'
    BY <2>1, <2>3 DEF StartInv, AtEdge, Runners
  <2>5. HeldInv'
    BY <2>1 DEF HeldInv
  <2>6. QED
    BY <2>4, <2>5
<1>30. ASSUME Boot PROVE ProgressInv'
  <2>1. /\ UNCHANGED <<state, approvals, job, decide>> /\ worker = "down" /\ "boot" \in Runners
        /\ pc \in [Runners -> PCs] /\ edge \in [Runners -> Edges \cup {"none"}]
        /\ "boot" # "trigger"
    BY <1>30 DEF Boot, taskVars, jobVars, requestVars, decideVars, BaseInv, TypeOK, RunnerTypeOK,
       Runners
  <2>2. \A r \in Runners : pc[r] = "idle"
    BY <2>1 DEF BaseInv, SlotInv, RunnerHeld
  <2>3. \A i \in Jobs : Pending(i)' <=> Pending(i)
    BY <2>1 DEF Pending
  <2>4. \A r \in Runners : pc'[r] = "idle" \/ (r = "boot" /\ pc'[r] = "read")
    <3>1. CASE Goto("boot", "read", "none")
      BY <2>1, <2>2, <3>1 DEF Goto
    <3>2. CASE UNCHANGED runnerVars
      BY <2>2, <3>2 DEF runnerVars
    <3>3. QED
      BY <1>30, <3>1, <3>2 DEF Boot
  <2>5. ~Continues("trigger")
    BY <2>2 DEF Continues, StatesAhead
  <2>6. StartInv'
    BY <2>1, <2>3, <2>4, <2>5 DEF StartInv, AtEdge
  <2>7. ASSUME state \in HeldStates PROVE Continues("boot")'
    <3>1. pc' = [pc EXCEPT !["boot"] = "read"]
      BY <1>30, <2>7 DEF Boot, Goto, HeldStates, NeedsAttentionOnBoot
    <3>2. state # NoTask
      BY <2>7 DEF HeldStates, InProgress, NoTask
    <3>3. QED
      BY <2>1, <3>1, <3>2 DEF Continues, StatesAhead
  <2>8. HeldInv'
    BY <2>1, <2>7 DEF HeldInv
  <2>9. QED
    BY <2>6, <2>8
<1>31. CASE ApiCrash
  <2>1. Waits => Waits'
    BY <1>31 DEF ApiCrash, Waits, taskVars, BaseInv, TypeOK, RequestTypeOK
  <2>2. QED
    BY <1>23, <1>31, <2>1 DEF ApiCrash, taskVars, runnerVars, jobVars, Decided, PlanApproval
<1>32. CASE UNCHANGED vars
  BY <1>23, <1>32 DEF vars, taskVars, runnerVars, jobVars, requestVars, decideVars, Decided, PlanApproval, Waits
<1>33. QED
  BY <1>1, <1>2, <1>3, <1>4, <1>5, <1>6, <1>7, <1>8, <1>9, <1>10, <1>11, <1>12, <1>13, <1>14,
     <1>15, <1>16, <1>17, <1>18, <1>19, <1>20, <1>21, <1>22, <1>24, <1>25, <1>26, <1>27, <1>28,
     <1>29, <1>30, <1>31, <1>32 DEF Next, RunStep, DecideStep, CancelStep
\* Somebody has decided only if there is a row to decide on.
LEMMA ConsentHasRow ==
  ASSUME BaseInv, Consent
  PROVE  approvals # <<>>
<1>1. PICK d \in Deciders : decide[d] # "idle"
  BY DEF Consent
<1>2. target[d] \in 1..Len(approvals)
  BY <1>1 DEF BaseInv, SlotInv
<1>3. approvals = <<>> => Len(approvals) = 0
  OBVIOUS
<1>4. QED
  BY <1>2, <1>3

\* The approval row is never deleted, and the bound counters only grow.
LEMMA RowStays ==
  ASSUME BaseInv, [Next]_vars
  PROVE  /\ approvals # <<>> => approvals' # <<>>
         /\ crashes' + faults' = 0 => crashes + faults = 0
<1>1. approvals # <<>> => approvals' # <<>>
  <2>1. approvals \in Seq({"pending", "approved", "denied"})
    BY DEF BaseInv, TypeOK, TaskTypeOK
  <2>2. ASSUME NEW r \in Runners, RequestApproval(r) PROVE approvals' # <<>>
    BY <2>1, <2>2 DEF RequestApproval
  <2>3. ASSUME NEW d \in Deciders, DecideStep(d), approvals # <<>> PROVE approvals' # <<>>
    <3>1. CASE DecideUpdate(d)
      <4>1. target[d] \in 1..Len(approvals) /\ DOMAIN approvals' = DOMAIN approvals
        BY <2>1, <3>1 DEF DecideUpdate, BaseInv, SlotInv
      <4>2. target[d] \in DOMAIN approvals'
        BY <2>1, <4>1
      <4>3. QED
        BY <4>2
    <3>2. CASE DecideFind(d) \/ DecideEnqueue(d)
      BY <2>3, <3>2 DEF DecideFind, DecideEnqueue, taskVars
    <3>3. QED
      BY <2>3, <3>1, <3>2 DEF DecideStep
  <2>4. QED
    BY <2>2, <2>3, ApprovalFrame DEF ApiCrash, taskVars
<1>2. /\ crashes' = crashes \/ crashes' = crashes + 1
      /\ faults' = faults \/ faults' = faults + 1
  <2> USE DEF OnlyRunner, boundVars, Throw
  <2>1. ASSUME NEW r \in Runners, RunStep(r) \/ Fault(r)
        PROVE  UNCHANGED crashes /\ (faults' = faults \/ faults' = faults + 1)
    BY <2>1 DEF RunStep, LookUpTask, CreateTask, ReadTask, FindPullRequest, ForceRecover,
       Reread, Check, WriteState, LogState, Plan, RequestApproval, FindApproval, Code,
       VerificationGate, FixCode, Push, OpenPullRequest, RecordPullRequest, Announce, End, Fault
  <2>2. ASSUME \/ \E j \in Jobs : StartJob(j)
               \/ \E d \in Deciders : DecideStep(d)
               \/ \E c \in Cancellers : CancelStep(c)
               \/ Boot \/ UNCHANGED vars
        PROVE  UNCHANGED <<crashes, faults>>
    BY <2>2 DEF StartJob, DecideStep, DecideFind, DecideUpdate, DecideEnqueue, CancelStep,
       CancelRead, CancelCheck, CancelWrite, CancelLog, Boot, vars
  <2>3. CASE WorkerCrash \/ ApiCrash
    BY <2>3 DEF WorkerCrash, ApiCrash
  <2>4. QED
    BY <2>1, <2>2, <2>3 DEF Next
<1>3. crashes \in Nat /\ faults \in Nat
  BY PipelineAssumption DEF BaseInv, TypeOK
<1>4. QED
  BY <1>1, <1>2, <1>3

LEMMA AskStep ==
  ASSUME BaseInv, ApprovalInv, ConsentInv, AskInv, [Next]_vars
  PROVE  AskInv'
<1>. approvals # <<>> => approvals' # <<>>
  BY RowStays
<1>. crashes' + faults' = 0 => crashes + faults = 0
  BY RowStays
<1> USE DEF AskInv, Asking, AtEdge, BaseInv, EdgeInv, StepOK, TypeOK, RunnerTypeOK, Goto,
            OnlyRunner, boundVars, taskVars, runnerVars, Edges, RecoveryEdges
<1>1. ASSUME NEW r \in Runners, LookUpTask(r) PROVE AskInv'
  BY <1>1 DEF LookUpTask
<1>2. ASSUME NEW r \in Runners, CreateTask(r) PROVE AskInv'
  BY <1>2 DEF CreateTask
<1>3. ASSUME NEW r \in Runners, ReadTask(r) PROVE AskInv'
  <2>1. ~AutoApprovePlans /\ state \in InProgress => approvals # <<>>
    BY ConsentHasRow DEF ConsentInv
  <2>2. QED
    BY <1>3, <2>1 DEF ReadTask, Drive
<1>4. ASSUME NEW r \in Runners, FindPullRequest(r) PROVE AskInv'
  BY <1>4 DEF FindPullRequest, RecoveryEdge
<1>5. ASSUME NEW r \in Runners, ForceRecover(r) PROVE AskInv'
  BY SMTT(20), <1>5 DEF ForceRecover
<1>6. ASSUME NEW r \in Runners, Reread(r) PROVE AskInv'
  BY <1>6 DEF Reread, Drive
<1>7. ASSUME NEW r \in Runners, Check(r) PROVE AskInv'
  BY SMTT(20), <1>7 DEF Check, Throw
<1>8. ASSUME NEW r \in Runners, WriteState(r) PROVE AskInv'
  BY <1>8 DEF WriteState, To, RecoveryTarget
<1>9. ASSUME NEW r \in Runners, LogState(r) PROVE AskInv'
  BY <1>9 DEF LogState, Then
<1>10. ASSUME NEW r \in Runners, Plan(r) PROVE AskInv'
  BY SMTT(30), <1>10 DEF Plan
<1>11. ASSUME NEW r \in Runners, RequestApproval(r) PROVE AskInv'
  BY <1>11 DEF RequestApproval
<1>12. ASSUME NEW r \in Runners, FindApproval(r) PROVE AskInv'
  BY SMTT(30), <1>12 DEF FindApproval, Throw
<1>13. ASSUME NEW r \in Runners, Code(r) PROVE AskInv'
  BY <1>13 DEF Code
<1>14. ASSUME NEW r \in Runners, VerificationGate(r) PROVE AskInv'
  BY SMTT(30), <1>14 DEF VerificationGate
<1>15. ASSUME NEW r \in Runners, FixCode(r) PROVE AskInv'
  BY <1>15 DEF FixCode
<1>16. ASSUME NEW r \in Runners, Push(r) PROVE AskInv'
  BY <1>16 DEF Push
<1>17. ASSUME NEW r \in Runners, OpenPullRequest(r) PROVE AskInv'
  BY <1>17 DEF OpenPullRequest
<1>18. ASSUME NEW r \in Runners, RecordPullRequest(r) PROVE AskInv'
  BY SMTT(30), <1>18 DEF RecordPullRequest, Throw
<1>19. ASSUME NEW r \in Runners, Announce(r) PROVE AskInv'
  BY <1>19 DEF Announce
<1>20. ASSUME NEW r \in Runners, End(r) PROVE AskInv'
  BY <1>20 DEF End
<1>21. ASSUME NEW r \in Runners, Fault(r) PROVE AskInv'
  BY <1>21 DEF Fault, Throw
<1>22. ASSUME NEW j \in Jobs, StartJob(j) PROVE AskInv'
  BY <1>22 DEF StartJob, SlotInv, RunnerHeld, Runners
<1>23. ASSUME NEW d \in Deciders, DecideStep(d) PROVE AskInv'
  BY <1>23 DEF DecideStep, DecideFind, DecideUpdate, DecideEnqueue
<1>24. ASSUME NEW c \in Cancellers, CancelStep(c) PROVE AskInv'
  BY <1>24 DEF CancelStep, CancelRead, CancelCheck, CancelWrite, CancelLog
<1>25. ASSUME WorkerCrash PROVE AskInv'
  BY <1>25 DEF WorkerCrash
<1>26. ASSUME Boot PROVE AskInv'
  BY <1>26 DEF Boot, SlotInv, RunnerHeld, Runners
<1>27. CASE ApiCrash
  BY <1>27 DEF ApiCrash
<1>28. CASE UNCHANGED vars
  BY <1>28 DEF vars
<1>29. QED
  BY <1>1, <1>2, <1>3, <1>4, <1>5, <1>6, <1>7, <1>8, <1>9, <1>10, <1>11, <1>12, <1>13, <1>14,
     <1>15, <1>16, <1>17, <1>18, <1>19, <1>20, <1>21, <1>22, <1>23, <1>24, <1>25, <1>26, <1>27,
     <1>28 DEF Next, RunStep

ProgressIInv == DecisionInv /\ ProgressInv /\ AskInv

\* The task is never left to nobody: when the worker has come to rest the task has ended,
\* waits for a person who can act on it, or one of the failures the system knows of -- a job
\* out of attempts, a recovery at boot that threw -- has been recorded.
THEOREM NothingForgotten == Spec => []NoTaskIsForgotten
<1>1. Init => ProgressIInv
  <2> SUFFICES ASSUME Init PROVE ProgressIInv
    OBVIOUS
  <2> USE DEF Init, NoTask
  <2>1. DecisionInv
    BY DEF DecisionInv, HasDecided
  <2>2. ProgressInv
    BY DEF ProgressInv, StartInv, HeldInv, HeldStates, InProgress, Pending, AtEdge, Runners, Jobs
  <2>3. AskInv
    BY DEF AskInv, AtEdge
  <2>4. QED
    BY <2>1, <2>2, <2>3 DEF ProgressIInv
<1>2. IInv /\ IInv' /\ ProgressIInv /\ [Next]_vars => ProgressIInv'
  BY DecisionStep, ProgressStep, AskStep DEF IInv, ProgressIInv
<1>3. IInv /\ ProgressIInv => NoTaskIsForgotten
  <2> SUFFICES ASSUME IInv, ProgressIInv, Quiet, ~bootFailed, \A j \in Jobs : job[j] # "failed"
               PROVE  \/ state \in TerminalStates \cup {"BLOCKED", "AWAITING_HUMAN_REVIEW"}
                      \/ WaitsForDecision
    BY DEF NoTaskIsForgotten
  <2>1. \A r \in Runners : pc[r] = "idle" /\ ~Continues(r)
    BY DEF Quiet, Continues, StatesAhead
  <2>2. "trigger" \in Runners /\ \A j \in Jobs : ~Pending(j)
    BY DEF Runners, Jobs, Quiet, Pending
  <2>3. state \notin StartStates /\ state # "PAUSED"
    BY <2>1, <2>2 DEF ProgressIInv, ProgressInv, StartInv, Jobs
  <2>4. ASSUME state \in HeldStates PROVE WaitsForDecision
    <3>1. Waits
      BY <2>1, <2>2, <2>4 DEF ProgressIInv, ProgressInv, HeldInv, Quiet
    <3>2. approvals = <<>> => crashes + faults > 0
      <4>1. crashes \in Nat /\ faults \in Nat
        BY PipelineAssumption DEF IInv, BaseInv, TypeOK
      <4>2. approvals = <<>> => crashes + faults # 0
        BY <2>1, <3>1 DEF ProgressIInv, AskInv, Asking, Waits
      <4>3. QED
        BY <4>1, <4>2
    <3>3. approvals = <<>> \/ approvals = <<"pending">>
            \/ \E d \in Deciders : decide[d] \in {"decided", "unsent"}
      <4>1. approvals \in Seq({"pending", "approved", "denied"}) /\ Len(approvals) <= 1
        BY DEF IInv, BaseInv, TypeOK, TaskTypeOK, ApprovalInv, AtMostOnePlanApproval
      <4>2. ASSUME approvals # <<>>, approvals # <<"pending">>
            PROVE  \E i \in 1..Len(approvals) : approvals[i] # "pending"
        <5>1. 1 \in 1..Len(approvals) /\ Len(approvals) \in Nat
          BY <4>1, <4>2
        <5>2. Len(approvals) = 1
          BY <4>1, <5>1, AtMostOne
        <5>3. approvals[1] = "pending" => approvals = <<"pending">>
          BY <4>1, <5>2
        <5>4. QED
          BY <4>2, <5>1, <5>3
      <4>3. QED
        BY <3>1, <4>2 DEF ProgressIInv, DecisionInv, HasDecided, Waits
    <3>4. QED
      BY <3>1, <3>2, <3>3 DEF WaitsForDecision, Waits
  <2>5. QED
    BY <2>3, <2>4 DEF IInv, BaseInv, TypeOK, TaskTypeOK, TaskStates, HappyStates,
       AlwaysFromActive, TerminalStates, StartStates, HeldStates, InProgress
<1>4. QED
  BY <1>1, <1>2, <1>3, Invariance, PTL DEF Spec

-----------------------------------------------------------------------------
(* Without resume jobs, a recorded pull request ends the implementation.   *)

DoneStates == {"SELF_REVIEW", "PR_CREATED", "AWAITING_HUMAN_REVIEW", "CANCELLED", "BLOCKED"}

FinalInv ==
    /\ \A r \in Runners :
         pc[r] \in {"push", "openPr", "recordPr"} \/ (pc[r] = "log" /\ edge[r] = "review")
           => state \in {"SELF_REVIEW", "CANCELLED"}
    /\ prRow =>
         /\ state \in DoneStates
         /\ \A r \in Runners :
              /\ pc[r] \notin ImplementationPCs \cup {"create", "findApproval"}
              /\ pc[r] = "force" => edge[r] = "fastForward"
              /\ pc[r] \in {"write", "log"} =>
                   edge[r] \in {"prCreated", "handover", "fastForward", "blockReview"}

\* Without resume jobs the worker has one run of the task at a time.
LEMMA SoleRunner ==
  ASSUME Deciders = {}, BaseInv, NEW q \in Runners, NEW r \in Runners,
         pc[q] # "idle", pc[r] # "idle"
  PROVE  q = r
BY DEF BaseInv, SlotInv, RunnerHeld, Runners, Jobs

LEMMA FinalStep ==
  ASSUME Deciders = {}, BaseInv, FinalInv, [Next]_vars
  PROVE  FinalInv'
<1> USE PipelineAssumption
    DEF FinalInv, DoneStates, NoTask, ImplementationPCs, InProgress, BaseInv, EdgeInv, StepOK, TypeOK, TaskTypeOK, RunnerTypeOK, Goto, OnlyRunner,
        taskVars, runnerVars, Edges, RecoveryEdges
<1> USE SoleRunner
<1>1. ASSUME NEW r \in Runners, LookUpTask(r) PROVE FinalInv'
    BY <1>1 DEF LookUpTask
<1>2. ASSUME NEW r \in Runners, CreateTask(r) PROVE FinalInv'
    BY <1>2 DEF CreateTask
<1>3. ASSUME NEW r \in Runners, ReadTask(r) PROVE FinalInv'
  <2>1. OnlyRunner /\ UNCHANGED taskVars /\ pc[r] # "idle"
    BY <1>3 DEF ReadTask
  <2>2. prRow => Goto(r, "findPr", "none") \/ Goto(r, "end", "none")
    BY <1>3 DEF ReadTask, Drive
  <2>3. \E p \in {"force", "findPr", "check", "findApproval", "end"}, e \in Edges \cup {"none"} :
          Goto(r, p, e)
    BY <1>3 DEF ReadTask, Drive
  <2>4. QED
    BY <2>1, <2>2, <2>3
<1>4. ASSUME NEW r \in Runners, FindPullRequest(r) PROVE FinalInv'
    BY <1>4 DEF FindPullRequest, RecoveryEdge
<1>5. ASSUME NEW r \in Runners, ForceRecover(r) PROVE FinalInv'
  <2>1. UNCHANGED <<state, prRow>>
    BY <1>5 DEF ForceRecover
  <2>2. \A q \in Runners : q # r => pc'[q] = pc[q] /\ edge'[q] = edge[q]
    BY <1>5 DEF ForceRecover
  <2>3. pc[r] = "force" /\ (pc'[r] = "recovered" \/ (pc'[r] = "write" /\ edge'[r] = edge[r]))
    BY <1>5 DEF ForceRecover
  <2>4. QED
    BY ZenonT(60), <2>1, <2>2, <2>3
<1>6. ASSUME NEW r \in Runners, Reread(r) PROVE FinalInv'
  <2> USE <1>6
  <2>1. OnlyRunner /\ UNCHANGED taskVars /\ pc[r] # "idle"
    BY DEF Reread
  <2>2. prRow => Goto(r, "end", "none")
    BY DEF Reread, Drive
  <2>3. \E p \in {"check", "findApproval", "end"}, e \in Edges \cup {"none"} :
          Goto(r, p, e) /\ e # "review"
    BY DEF Reread, Drive
  <2>4. QED
    BY <2>1, <2>2, <2>3
<1>7. ASSUME NEW r \in Runners, Check(r) PROVE FinalInv'
  <2>1. UNCHANGED <<state, prRow>>
    BY <1>7 DEF Check, Throw
  <2>2. \A q \in Runners : q # r => pc'[q] = pc[q] /\ edge'[q] = edge[q]
    BY <1>7 DEF Check, Throw
  <2>3. pc'[r] = "idle"
          \/ (pc[r] = "check" /\ pc'[r] = "write" /\ edge'[r] = edge[r] /\ state = From(edge[r]))
    BY <1>7 DEF Check, Throw
  <2>4. QED
    BY ZenonT(60), <2>1, <2>2, <2>3 DEF From
<1>8. ASSUME NEW r \in Runners, WriteState(r) PROVE FinalInv'
    BY SMTT(20), <1>8 DEF WriteState, To, RecoveryTarget
<1>9. ASSUME NEW r \in Runners, LogState(r) PROVE FinalInv'
    BY <1>9 DEF LogState, Then, To, RecoveryTarget
<1>10. ASSUME NEW r \in Runners, Plan(r) PROVE FinalInv'
    BY <1>10 DEF Plan
<1>11. ASSUME NEW r \in Runners, RequestApproval(r) PROVE FinalInv'
    BY <1>11 DEF RequestApproval
<1>12. ASSUME NEW r \in Runners, FindApproval(r) PROVE FinalInv'
    BY <1>12 DEF FindApproval, Throw, PlanAccepted, PlanApproval
<1>13. ASSUME NEW r \in Runners, Code(r) PROVE FinalInv'
    BY <1>13 DEF Code
<1>14. ASSUME NEW r \in Runners, VerificationGate(r) PROVE FinalInv'
    BY <1>14 DEF VerificationGate, FixAttemptsLeft, CountFixAttempt
<1>15. ASSUME NEW r \in Runners, FixCode(r) PROVE FinalInv'
    BY <1>15 DEF FixCode
<1>16. ASSUME NEW r \in Runners, Push(r) PROVE FinalInv'
    BY <1>16 DEF Push
<1>17. ASSUME NEW r \in Runners, OpenPullRequest(r) PROVE FinalInv'
    BY <1>17 DEF OpenPullRequest
<1>18. ASSUME NEW r \in Runners, RecordPullRequest(r) PROVE FinalInv'
  <2>1. UNCHANGED state /\ state \in {"SELF_REVIEW", "CANCELLED"}
    BY <1>18 DEF RecordPullRequest, Throw
  <2>2. \A q \in Runners : q # r => pc[q] = "idle" /\ pc'[q] = "idle"
    BY <1>18 DEF RecordPullRequest, Throw
  <2>3. pc'[r] = "idle" \/ (pc'[r] = "check" /\ edge'[r] = "prCreated")
    BY <1>18 DEF RecordPullRequest, Throw
  <2>4. QED
    BY <2>1, <2>2, <2>3
<1>19. ASSUME NEW r \in Runners, Announce(r) PROVE FinalInv'
    BY <1>19 DEF Announce
<1>20. ASSUME NEW r \in Runners, End(r) PROVE FinalInv'
    BY <1>20 DEF End
<1>21. ASSUME NEW r \in Runners, Fault(r) PROVE FinalInv'
    BY <1>21 DEF Fault, Throw
<1>22. ASSUME NEW j \in Jobs, StartJob(j) PROVE FinalInv'
    BY <1>22 DEF StartJob
<1>23. ASSUME NEW d \in Deciders, DecideFind(d) PROVE FinalInv'
    BY <1>23 DEF DecideFind
<1>24. ASSUME NEW d \in Deciders, DecideUpdate(d) PROVE FinalInv'
    BY <1>24 DEF DecideUpdate
<1>25. ASSUME NEW d \in Deciders, DecideEnqueue(d) PROVE FinalInv'
    BY <1>25 DEF DecideEnqueue
<1>26. ASSUME NEW c \in Cancellers, CancelRead(c) PROVE FinalInv'
    BY <1>26 DEF CancelRead
<1>27. ASSUME NEW c \in Cancellers, CancelCheck(c) PROVE FinalInv'
    BY <1>27 DEF CancelCheck
<1>28. ASSUME NEW c \in Cancellers, CancelWrite(c) PROVE FinalInv'
    BY <1>28 DEF CancelWrite
<1>29. ASSUME NEW c \in Cancellers, CancelLog(c) PROVE FinalInv'
    BY <1>29 DEF CancelLog
<1>30. ASSUME WorkerCrash PROVE FinalInv'
    BY <1>30 DEF WorkerCrash
<1>31. ASSUME Boot PROVE FinalInv'
  <2>1. UNCHANGED taskVars /\ "boot" \in Runners
    BY <1>31 DEF Boot, Runners
  <2>2. CASE Goto("boot", "read", "none")
    BY <2>1, <2>2
  <2>3. CASE UNCHANGED runnerVars
    BY <2>1, <2>3
  <2>4. QED
    BY <1>31, <2>2, <2>3 DEF Boot
<1>32. ASSUME ApiCrash PROVE FinalInv'
    BY <1>32 DEF ApiCrash
<1>33. CASE UNCHANGED vars
    BY <1>33 DEF vars
<1>34. QED
    BY <1>1, <1>2, <1>3, <1>4, <1>5, <1>6, <1>7, <1>8, <1>9, <1>10, <1>11,
       <1>12, <1>13, <1>14, <1>15, <1>16, <1>17, <1>18, <1>19, <1>20, <1>21,
       <1>22, <1>23, <1>24, <1>25, <1>26, <1>27, <1>28, <1>29, <1>30, <1>31,
       <1>32, <1>33 DEF Next, RunStep, DecideStep, CancelStep

\* Recovery "instead of ever calling the Implementation Agent again": true as long
\* as only the trigger job and the boot recovery run the task.
THEOREM PullRequestIsFinal ==
  ASSUME Deciders = {}
  PROVE  Spec => []PullRequestEndsImplementation
<1>1. Init => FinalInv
    BY DEF Init, FinalInv
<1>2. IInv /\ FinalInv /\ [Next]_vars => FinalInv'
    BY FinalStep DEF IInv
<1>3. FinalInv => PullRequestEndsImplementation
    BY DEF FinalInv, PullRequestEndsImplementation
<1>4. QED
    BY <1>1, <1>2, <1>3, Invariance, PTL DEF Spec

-----------------------------------------------------------------------------
(* One run, no cancel request: the state machine's promises hold.          *)

\* What a run has just checked, or just written, is still so.
WriterInv ==
    /\ state # NoTask => \A r \in Runners : pc[r] # "create"
    /\ \A r \in Runners : pc[r] = "write" /\ edge[r] \notin RecoveryEdges =>
         state = From(edge[r]) /\ CanTransition(state, To(edge[r]))
    /\ \A r \in Runners : pc[r] = "log" => state = To(edge[r])

LEMMA WriterStep ==
  ASSUME Deciders = {}, Cancellers = {}, BaseInv, WriterInv, [Next]_vars
  PROVE  WriterInv'
<1> USE PipelineAssumption, SoleRunner
    DEF WriterInv, BaseInv, EdgeInv, StepOK, TypeOK, RunnerTypeOK, Goto, OnlyRunner,
        taskVars, runnerVars, CanTransition
<1>1. ASSUME NEW r \in Runners, LookUpTask(r) PROVE WriterInv'
  BY <1>1 DEF LookUpTask
<1>2. ASSUME NEW r \in Runners, CreateTask(r) PROVE WriterInv'
  BY <1>2 DEF CreateTask
<1>3. ASSUME NEW r \in Runners, ReadTask(r) PROVE WriterInv'
  BY <1>3 DEF ReadTask, Drive
<1>4. ASSUME NEW r \in Runners, FindPullRequest(r) PROVE WriterInv'
  BY <1>4 DEF FindPullRequest
<1>5. ASSUME NEW r \in Runners, ForceRecover(r) PROVE WriterInv'
  BY <1>5 DEF ForceRecover
<1>6. ASSUME NEW r \in Runners, Reread(r) PROVE WriterInv'
  BY <1>6 DEF Reread, Drive
<1>7. ASSUME NEW r \in Runners, Check(r) PROVE WriterInv'
  BY <1>7 DEF Check, Throw
<1>8. ASSUME NEW r \in Runners, WriteState(r) PROVE WriterInv'
  BY <1>8 DEF WriteState
<1>9. ASSUME NEW r \in Runners, LogState(r) PROVE WriterInv'
  BY <1>9, EdgesGoOn DEF LogState
<1>10. ASSUME NEW r \in Runners, Plan(r) PROVE WriterInv'
  BY <1>10 DEF Plan
<1>11. ASSUME NEW r \in Runners, RequestApproval(r) PROVE WriterInv'
  BY <1>11 DEF RequestApproval
<1>12. ASSUME NEW r \in Runners, FindApproval(r) PROVE WriterInv'
  BY <1>12 DEF FindApproval, Throw
<1>13. ASSUME NEW r \in Runners, Code(r) PROVE WriterInv'
  BY <1>13 DEF Code
<1>14. ASSUME NEW r \in Runners, VerificationGate(r) PROVE WriterInv'
  BY <1>14 DEF VerificationGate
<1>15. ASSUME NEW r \in Runners, FixCode(r) PROVE WriterInv'
  BY <1>15 DEF FixCode
<1>16. ASSUME NEW r \in Runners, Push(r) PROVE WriterInv'
  BY <1>16 DEF Push
<1>17. ASSUME NEW r \in Runners, OpenPullRequest(r) PROVE WriterInv'
  BY <1>17 DEF OpenPullRequest
<1>18. ASSUME NEW r \in Runners, RecordPullRequest(r) PROVE WriterInv'
  BY <1>18 DEF RecordPullRequest, Throw
<1>19. ASSUME NEW r \in Runners, Announce(r) PROVE WriterInv'
  BY <1>19 DEF Announce
<1>20. ASSUME NEW r \in Runners, End(r) PROVE WriterInv'
  BY <1>20 DEF End
<1>21. ASSUME NEW r \in Runners, Fault(r) PROVE WriterInv'
  BY <1>21 DEF Fault, Throw
<1>22. ASSUME NEW j \in Jobs, StartJob(j) PROVE WriterInv'
  BY <1>22 DEF StartJob
<1>23. CASE WorkerCrash
  BY <1>23 DEF WorkerCrash
<1>24. CASE Boot
  BY <1>24 DEF Boot
<1>25. CASE ApiCrash
  BY <1>25 DEF ApiCrash
<1>26. CASE UNCHANGED vars
  BY <1>26 DEF vars
<1>27. QED
  BY <1>1, <1>2, <1>3, <1>4, <1>5, <1>6, <1>7, <1>8, <1>9, <1>10, <1>11, <1>12, <1>13, <1>14,
     <1>15, <1>16, <1>17, <1>18, <1>19, <1>20, <1>21, <1>22, <1>23, <1>24, <1>25, <1>26
  DEF Next, RunStep

\* A step that changes the state creates the task, cancels it, or is a transition's write.
LEMMA StateFrame ==
  ASSUME [Next]_vars
  PROVE  \/ UNCHANGED state
         \/ \E r \in Runners : CreateTask(r) \/ WriteState(r)
         \/ \E c \in Cancellers : CancelWrite(c)
<1>1. ASSUME NEW r \in Runners, RunStep(r) \/ Fault(r)
      PROVE  UNCHANGED state \/ CreateTask(r) \/ WriteState(r)
  BY <1>1 DEF RunStep, LookUpTask, ReadTask, FindPullRequest, ForceRecover, Reread, Check, LogState,
     Plan, RequestApproval, FindApproval, Code, VerificationGate, FixCode, Push, OpenPullRequest,
     RecordPullRequest, Announce, End, Fault, Throw, taskVars
<1>2. ASSUME \/ \E j \in Jobs : StartJob(j)
             \/ \E d \in Deciders : DecideStep(d)
             \/ WorkerCrash \/ Boot \/ ApiCrash \/ UNCHANGED vars
      PROVE  UNCHANGED state
  BY <1>2 DEF StartJob, DecideStep, DecideFind, DecideUpdate, DecideEnqueue, WorkerCrash, Boot,
     ApiCrash, vars, taskVars
<1>3. ASSUME NEW c \in Cancellers, CancelStep(c)
      PROVE  UNCHANGED state \/ CancelWrite(c)
  BY <1>3 DEF CancelStep, CancelRead, CancelCheck, CancelLog, taskVars
<1>4. QED
  BY <1>1, <1>2, <1>3 DEF Next

\* The single-writer assumption behind TaskStateMachine is exactly what its promise needs:
\* where only the trigger job and the boot recovery write, every change of state that is not
\* a forced recovery is a transition of the graph.
THEOREM SingleWriterIsLegal ==
  ASSUME Deciders = {}, Cancellers = {}
  PROVE  Spec => StateChangesAreLegal
<1>1. Init => WriterInv
  BY DEF Init, WriterInv
<1>2. IInv /\ WriterInv /\ [Next]_vars => WriterInv'
  BY WriterStep DEF IInv
<1>3. ASSUME IInv, WriterInv, [Next]_vars
      PROVE  [state' # state /\ state # NoTask =>
                \/ CanTransition(state, state')
                \/ \E r \in Runners : pc[r] = "write" /\ edge[r] \in RecoveryEdges]_vars
  <2>1. ASSUME NEW r \in Runners, CreateTask(r) PROVE state = NoTask
    BY <1>3, <2>1 DEF CreateTask, WriterInv
  <2>2. ASSUME NEW r \in Runners, WriteState(r), edge[r] \notin RecoveryEdges
        PROVE  CanTransition(state, state')
    BY <1>3, <2>2 DEF WriteState, WriterInv
  <2>3. ASSUME NEW r \in Runners, WriteState(r) PROVE pc[r] = "write"
    BY <2>3 DEF WriteState
  <2>4. QED
    BY <1>3, <2>1, <2>2, <2>3, StateFrame
<1>4. QED
  BY <1>1, <1>2, <1>3, Invariance, PTL DEF Spec, StateChangesAreLegal

\* Between the row and its event stands only the run that is about to write the event.
TrailInv ==
    state \notin {NoTask, "CREATED"} /\ trail # state => \E r \in Runners : pc[r] = "log"

\* ... and the row and its state_changed event never disagree once the run is over, as long
\* as nothing breaks between the two statements.
THEOREM SingleWriterKeepsTrail ==
  ASSUME Deciders = {}, Cancellers = {}, MaxCrashes = 0, MaxFaults = 0
  PROVE  Spec => []TrailInSync
<1>1. Init => WriterInv /\ TrailInv
  BY DEF Init, WriterInv, TrailInv
<1>2. IInv /\ WriterInv /\ [Next]_vars => WriterInv'
  BY WriterStep DEF IInv
<1>3. ASSUME IInv, WriterInv, TrailInv, [Next]_vars
      PROVE  TrailInv'
  <2>1. ASSUME NEW r \in Runners, WriteState(r) PROVE TrailInv'
    BY <1>3, <2>1 DEF WriteState, Goto, TrailInv, IInv, BaseInv, TypeOK, RunnerTypeOK
  <2>2. ASSUME NEW r \in Runners, CreateTask(r) PROVE TrailInv'
    BY <2>2 DEF CreateTask, TrailInv
  <2>3. ASSUME NEW r \in Runners, LogState(r) PROVE TrailInv'
    BY <1>3, <2>3 DEF LogState, TrailInv, WriterInv
  <2>4. ASSUME NEW r \in Runners, pc[r] = "log", pc'[r] # "log" PROVE LogState(r)
    <3>1. \A q \in Runners : pc[q] # "idle" => q = r
      BY <1>3, <2>4, SoleRunner DEF IInv
    <3>2. UNCHANGED pc \/ LogState(r)
      <4>1. ~ApiCrash /\ ~WorkerCrash /\ \A q \in Runners : ~Fault(q)
        BY <1>3 DEF ApiCrash, WorkerCrash, Fault, IInv, BaseInv, TypeOK
      <4>2. ASSUME NEW q \in Runners, RunStep(q) PROVE LogState(r)
        <5>1. pc[q] # "idle"
          BY <4>2 DEF RunStep, LookUpTask, CreateTask, ReadTask, FindPullRequest, ForceRecover,
             Reread, Check, WriteState, LogState, Plan, RequestApproval, FindApproval, Code,
             VerificationGate, FixCode, Push, OpenPullRequest, RecordPullRequest, Announce, End
        <5>2. pc[q] = "log"
          BY <2>4, <3>1, <5>1
        <5>3. LogState(q)
          BY <4>2, <5>2 DEF RunStep, LookUpTask, CreateTask, ReadTask, FindPullRequest, ForceRecover,
             Reread, Check, WriteState, Plan, RequestApproval, FindApproval, Code,
             VerificationGate, FixCode, Push, OpenPullRequest, RecordPullRequest, Announce, End
        <5>4. QED
          BY <3>1, <5>1, <5>3
      <4>3. ~Boot
        BY <1>3, <2>4 DEF Boot, IInv, BaseInv, SlotInv, RunnerHeld
      <4>4. ASSUME NEW j \in Jobs, StartJob(j) PROVE FALSE
        BY <1>3, <2>4, <4>4, PipelineAssumption
           DEF StartJob, Goto, IInv, BaseInv, SlotInv, RunnerHeld, Runners, Jobs, TypeOK, RunnerTypeOK
      <4>5. QED
        BY <1>3, <4>1, <4>2, <4>3, <4>4 DEF Next, vars, runnerVars
    <3>3. QED
      BY <2>4, <3>2
  <2>5. ASSUME UNCHANGED state, \A r \in Runners : ~LogState(r) PROVE TrailInv'
    <3>1. UNCHANGED trail
      <4>1. ASSUME NEW r \in Runners, RunStep(r) \/ Fault(r) PROVE UNCHANGED trail
        BY <2>5, <4>1 DEF RunStep, LookUpTask, CreateTask, ReadTask, FindPullRequest, ForceRecover,
           Reread, Check, WriteState, Plan, RequestApproval, FindApproval, Code, VerificationGate,
           FixCode, Push, OpenPullRequest, RecordPullRequest, Announce, End, Fault, Throw, taskVars
      <4>2. ASSUME (\E j \in Jobs : StartJob(j)) \/ WorkerCrash \/ Boot \/ ApiCrash \/ UNCHANGED vars
            PROVE  UNCHANGED trail
        BY <4>2 DEF StartJob, WorkerCrash, Boot, ApiCrash, vars, taskVars
      <4>3. QED
        BY <1>3, <4>1, <4>2 DEF Next
    <3>2. QED
      BY <1>3, <2>4, <2>5, <3>1 DEF TrailInv
  <2>6. QED
    BY <1>3, <2>1, <2>2, <2>3, <2>5, StateFrame
<1>4. TrailInv => TrailInSync
  BY DEF TrailInv, TrailInSync, Quiet
<1>5. QED
  BY <1>1, <1>2, <1>3, <1>4, Invariance, PTL DEF Spec
=============================================================================
